---- MODULE Spec2Model ----
(***************************************************************************)
(* A model of the L-Store storage engine of "Project 3/lstore": the        *)
(* ordered index (index.py), the table with its page directory, base and   *)
(* tail records, indirection chain and rollback journal (table.py), the    *)
(* query primitives (query.py), the lock manager (lock_manager.py) and the *)
(* transaction runner (transaction.py); and the buffer pool of            *)
(* "Project 2/lstore" (bufferpool.py), on its own.                         *)
(*                                                                         *)
(* Conventions.  Python's None is the value None (-1); user values are     *)
(* naturals.  A physical record is the sequence                            *)
(*   <<INDIRECTION, RID, TIMESTAMP, SCHEMA_ENCODING, user columns...>>,    *)
(* so physical column c of a record r is r[c + 1].  The timestamp is       *)
(* int(time()), which no code path reads back; it is written as 0.         *)
(* The page and buffer-pool layer below PageRange is abstracted to the     *)
(* values stored per (range, base/tail, offset): with BUFFERPOOL_CAPACITY  *)
(* of 8192 frames nothing is evicted at the sizes explored here.           *)
(***************************************************************************)
EXTENDS Integers, Sequences, FiniteSets, TLC

VARIABLES
    table,      \* the Table object: directory, page ranges, index, journal, context
    lockTable,  \* LockManager.lock_table: lock id -> Lock
    acquired_locks, \* Query.acquired_locks of the table's Query object
    txns,       \* the Transaction objects and the position of the thread running each
    obs,        \* what the callers observed (return values, reads): history only
    pool        \* the Bufferpool of "Project 2/lstore" and the threads calling it

vars == <<table, lockTable, acquired_locks, txns, obs, pool>>

---------------------------------------------------------------------------
(* config.py *)
None == -1
INDIRECTION_COLUMN == 0
RID_COLUMN == 1
TIMESTAMP_COLUMN == 2
SCHEMA_ENCODING_COLUMN == 3
DELETED_RID == 0
RECORDS_PER_PAGE == 511
PAGES_PER_RANGE == 16

(* The table of the model: Table("T", num_columns = 2, key = 0). *)
num_columns == Len(<<"key", "value">>)
key == 0
UserCols == 0 .. (num_columns - 1)

---------------------------------------------------------------------------
(* Helpers on sequences and functions *)

\* list.insert(pos, x) with a 0-based pos
SeqInsertAt(s, pos, x) == SubSeq(s, 1, pos) \o <<x>> \o SubSeq(s, pos + 1, Len(s))

\* the element of a singleton.  Only({e : x \in {v}}) is e with x naming the
\* value v of a call, computed once
Only(S) == CHOOSE x \in S : TRUE

\* del d[k]
MapRemove(m, k) == [x \in (DOMAIN m) \ {k} |-> m[x]]

\* d[k] = v
MapPut(m, k, v) == [x \in (DOMAIN m) \cup {k} |-> IF x = k THEN v ELSE m[x]]

\* a set of integers as the ascending sequence (CPython iterates a set of
\* small non-negative integers in ascending order)
RECURSIVE SetToSeq(_)
SetToSeq(S) ==
    IF S = {} THEN <<>>
    ELSE LET m == CHOOSE x \in S : \A y \in S : x <= y
         IN <<m>> \o SetToSeq(S \ {m})

---------------------------------------------------------------------------
(* index.py: one column's index.  Nodes live in an arena `nodes`; a node   *)
(* id is its position, 0 is None.  idx_map maps a value to its node id.    *)

NoIndex ==
    [present |-> FALSE, idx_map |-> <<>>, head |-> 0, tail |-> 0,
     sorted_keys |-> <<>>, dead_keys |-> {}, nodes |-> <<>>]

\* create_index on an empty table
EmptyIndex == [NoIndex EXCEPT !.present = TRUE]

IndexNode(value) == [value |-> value, rids |-> {}, next |-> 0, prev |-> 0]

RECURSIVE BinarySearchLoop(_, _, _, _, _)
BinarySearchLoop(sorted_keys, value, dead_keys, left, right) ==
    IF left < right
    THEN LET mid == (left + right) \div 2
             mid_val == sorted_keys[mid + 1]
         IN IF mid_val \in dead_keys
            THEN BinarySearchLoop(sorted_keys, value, dead_keys, left, mid)
            ELSE IF mid_val < value
                 THEN BinarySearchLoop(sorted_keys, value, dead_keys, mid + 1, right)
                 ELSE BinarySearchLoop(sorted_keys, value, dead_keys, left, mid)
    ELSE left

binary_search(sorted_keys, value, dead_keys) ==
    BinarySearchLoop(sorted_keys, value, dead_keys, 0, Len(sorted_keys))

\* Index.locate on an indexed column: a copy of the node's RID set
IndexLocate(ix, value) ==
    IF value \in ix.dead_keys THEN {}
    ELSE IF value \in DOMAIN ix.idx_map THEN ix.nodes[ix.idx_map[value]].rids
    ELSE {}

\* Index.insert.  The result is [ix, ok]: ok is FALSE when the Python code
\* raises (KeyError on idx_map[...], AttributeError on head.prev); the
\* in-place mutations made before the raise stay, the reassignment of
\* self.indices[column] (head, tail) does not happen.
IndexInsert(ix, value, rid) ==
    IF ~ix.present THEN [ix |-> ix, ok |-> TRUE]
    ELSE
    LET dead == ix.dead_keys \ {value}
        ix1  == [ix EXCEPT !.dead_keys = dead]
    IN  IF value \in DOMAIN ix.idx_map
        THEN [ix |-> [ix1 EXCEPT !.nodes[ix.idx_map[value]].rids = @ \cup {rid}],
              ok |-> TRUE]
        ELSE
        LET n    == Len(ix.nodes) + 1
            node == [IndexNode(value) EXCEPT !.rids = {rid}]
            ix2  == [ix1 EXCEPT !.nodes = Append(@, node),
                                !.idx_map = MapPut(@, value, n)]
        IN  IF ix.tail = 0
            THEN [ix |-> [ix2 EXCEPT !.head = n, !.tail = n,
                                     !.sorted_keys = Append(@, value)],
                  ok |-> TRUE]
            ELSE IF value > ix.nodes[ix.tail].value
            THEN [ix |-> [ix2 EXCEPT !.nodes[ix.tail].next = n,
                                     !.nodes[n].prev = ix.tail,
                                     !.tail = n,
                                     !.sorted_keys = Append(@, value)],
                  ok |-> TRUE]
            ELSE
            LET pos == binary_search(ix.sorted_keys, value, dead)
                sk  == SeqInsertAt(ix.sorted_keys, pos, value)
                ix3 == [ix2 EXCEPT !.sorted_keys = sk]
            IN  IF pos = 0
                THEN IF ix.head = 0
                     THEN [ix |-> ix3, ok |-> FALSE]
                     ELSE [ix |-> [ix3 EXCEPT !.nodes[n].next = ix.head,
                                              !.nodes[ix.head].prev = n,
                                              !.head = n],
                           ok |-> TRUE]
                ELSE IF pos = Len(sk) - 1
                THEN [ix |-> [ix3 EXCEPT !.nodes[ix.tail].next = n,
                                         !.nodes[n].prev = ix.tail,
                                         !.tail = n],
                      ok |-> TRUE]
                ELSE
                LET pk == sk[pos]          \* sorted_keys[pos - 1]
                    nk == sk[pos + 2]      \* sorted_keys[pos + 1]
                IN  IF pk \notin DOMAIN ix3.idx_map \/ nk \notin DOMAIN ix3.idx_map
                    THEN [ix |-> ix3, ok |-> FALSE]
                    ELSE
                    LET p == ix3.idx_map[pk]
                        x == ix3.idx_map[nk]
                        \* node.prev, node.next, prev_node.next, next_node.prev,
                        \* assigned in this order (the nodes may coincide)
                        n1 == [ix3.nodes EXCEPT ![n].prev = p]
                        n2 == [n1 EXCEPT ![n].next = x]
                        n3 == [n2 EXCEPT ![p].next = n]
                        n4 == [n3 EXCEPT ![x].prev = n]
                    IN  [ix |-> [ix3 EXCEPT !.nodes = n4], ok |-> TRUE]

\* Index.delete
IndexDelete(ix, value, rid) ==
    IF ~ix.present \/ value \notin DOMAIN ix.idx_map THEN ix
    ELSE
    LET d    == ix.idx_map[value]
        rids == ix.nodes[d].rids \ {rid}
        nd1  == [ix.nodes EXCEPT ![d].rids = rids]
    IN  IF rids # {}
        THEN [ix EXCEPT !.nodes = nd1]
        ELSE
        LET p   == nd1[d].prev
            nd2 == IF p # 0 THEN [nd1 EXCEPT ![p].next = nd1[d].next] ELSE nd1
            hd  == IF p # 0 THEN ix.head ELSE nd1[d].next
            x   == nd2[d].next
            nd3 == IF x # 0 THEN [nd2 EXCEPT ![x].prev = nd2[d].prev] ELSE nd2
            tl  == IF x # 0 THEN ix.tail ELSE nd2[d].prev
        IN  [ix EXCEPT !.nodes = nd3, !.head = hd, !.tail = tl,
                       !.dead_keys = @ \cup {value},
                       !.idx_map = MapRemove(@, value)]

\* Index.update: delete, then insert
IndexUpdate(ix, old_value, new_value, rid) ==
    IndexInsert(IndexDelete(ix, old_value, rid), new_value, rid)

\* Index.locate_range, the binary search for the starting position: low
RECURSIVE RangeLow(_, _, _, _)
RangeLow(sorted_keys, begin, low, high) ==
    IF low < high
    THEN IF sorted_keys[(low + high) \div 2 + 1] < begin
         THEN RangeLow(sorted_keys, begin, (low + high) \div 2 + 1, high)
         ELSE RangeLow(sorted_keys, begin, low, (low + high) \div 2)
    ELSE low

\* Index.locate_range, "find first alive node starting from low": the node
\* id, 0 for None, None when idx_map[key] raises KeyError
RECURSIVE RangeStart(_, _, _)
RangeStart(ix, i, end) ==
    IF i >= Len(ix.sorted_keys) THEN 0
    ELSE IF ix.sorted_keys[i + 1] > end THEN 0
    ELSE IF ix.sorted_keys[i + 1] \notin ix.dead_keys
    THEN IF ix.sorted_keys[i + 1] \in DOMAIN ix.idx_map
         THEN ix.idx_map[ix.sorted_keys[i + 1]]
         ELSE None
    ELSE RangeStart(ix, i + 1, end)

\* Index.locate_range, "traverse from start_node": [rids, end]; end is
\* "loop" when the walk comes back to a node it has visited, which the
\* Python loop never leaves
RECURSIVE RangeWalk(_, _, _, _, _)
RangeWalk(ix, cur_node, end, visited, result) ==
    IF cur_node = 0 \/ ix.nodes[cur_node].value > end
    THEN [rids |-> result, end |-> "return"]
    ELSE IF cur_node \in visited THEN [rids |-> result, end |-> "loop"]
    ELSE RangeWalk(ix, ix.nodes[cur_node].next, end, visited \cup {cur_node},
                   result \cup ix.nodes[cur_node].rids)

\* Index.locate_range on an indexed column: [rids, end], end one of
\* "return", "raise" (KeyError), "loop" (no return)
IndexLocateRange(ix, begin, end) ==
    Only({IF start_node = None THEN [rids |-> {}, end |-> "raise"]
          ELSE RangeWalk(ix, start_node, end, {}, {})
          : start_node \in {RangeStart(ix, RangeLow(ix.sorted_keys, begin, 0,
                                                    Len(ix.sorted_keys) - 1), end)}})

---------------------------------------------------------------------------
(* table.py: PageRange and Table *)

NoRecord == <<>>      \* read_record returning None
NoValues == <<>>      \* get_latest_version returning (None, None)

Col(rec, c) == rec[c + 1]
UserColumns(rec) == SubSeq(rec, 5, Len(rec))     \* rec[4:]

\* PageRange.__init__: no base and no tail records.  tps is the TPS header of
\* the range's base page 0 of the RID column, the page of every offset below
\* RECORDS_PER_PAGE; a new page holds zero bytes there.
PageRange == [base |-> <<>>, tail |-> <<>>, tps |-> 0]

\* PageRange.max_records
max_records == RECORDS_PER_PAGE * PAGES_PER_RANGE

\* Table.__init__(name, num_columns, key, create_index=True)
EmptyTable ==
    [page_directory |-> <<>>,
     page_ranges |-> <<>>,
     current_page_range |-> None,
     current_tail_page_range |-> None,
     next_rid |-> 1,
     indices |-> [c \in UserCols |-> IF c = key THEN EmptyIndex ELSE NoIndex],
     rids_to_merge |-> {},
     updates_since_merge |-> 0,
     lock_manager |-> FALSE,          \* table.lock_manager is not None
     transaction_id |-> None,
     transaction_modifications |-> <<>>]

\* a directory entry (range_idx, is_tail, offset)
Loc(range_idx, is_tail, offset) ==
    [range_idx |-> range_idx, is_tail |-> is_tail, offset |-> offset]

\* PageRange.has_capacity
has_capacity(pr) == Len(pr.base) < max_records

\* Table._get_or_create_page_range: [tb, range_idx]
get_or_create_page_range(tb) ==
    IF tb.current_page_range = None
       \/ ~has_capacity(tb.page_ranges[tb.current_page_range + 1])
    THEN [tb |-> [tb EXCEPT !.page_ranges = Append(@, PageRange),
                            !.current_page_range = Len(tb.page_ranges)],
          range_idx |-> Len(tb.page_ranges)]
    ELSE [tb |-> tb, range_idx |-> tb.current_page_range]

\* PageRange.read_base_record / read_tail_record through the directory entry
ReadAt(tb, loc) ==
    LET pr == tb.page_ranges[loc.range_idx + 1]
    IN  IF loc.is_tail THEN pr.tail[loc.offset + 1] ELSE pr.base[loc.offset + 1]

\* PageRange.update_base_column(offset, col_index, value)
update_base_column(tb, range_idx, offset, col_index, value) ==
    [tb EXCEPT !.page_ranges[range_idx + 1].base[offset + 1][col_index + 1] = value]

\* Table.read_record
read_record(tb, rid) ==
    IF rid \notin DOMAIN tb.page_directory THEN NoRecord
    ELSE LET record_data == ReadAt(tb, tb.page_directory[rid])
         IN  IF Col(record_data, RID_COLUMN) = DELETED_RID THEN NoRecord
             ELSE record_data

\* Table.get_latest_version: [values, schema]
get_latest_version(tb, rid) ==
    LET base_record == read_record(tb, rid)
    IN  IF base_record = NoRecord THEN [values |-> NoValues, schema |-> None]
        ELSE
        LET indirection_rid == Col(base_record, INDIRECTION_COLUMN)
            of_base == [values |-> UserColumns(base_record),
                        schema |-> Col(base_record, SCHEMA_ENCODING_COLUMN)]
        IN  IF indirection_rid = 0 THEN of_base
            ELSE LET tail_record == read_record(tb, indirection_rid)
                 IN  IF tail_record = NoRecord THEN of_base
                     ELSE [values |-> UserColumns(tail_record),
                           schema |-> Col(tail_record, SCHEMA_ENCODING_COLUMN)]

\* get_version without the walk: every relative version is the newest tail
VersionWalkNoStep(tb, curr_tail_rid, steps) == [rid |-> curr_tail_rid, ok |-> TRUE]

\* the loop of Table.get_version: follow INDIRECTION `steps` times
RECURSIVE VersionWalk(_, _, _)
VersionWalk(tb, curr_tail_rid, steps) ==
    IF steps = 0 \/ curr_tail_rid = 0 THEN [rid |-> curr_tail_rid, ok |-> TRUE]
    ELSE LET tail_record == read_record(tb, curr_tail_rid)
         IN  IF tail_record = NoRecord THEN [rid |-> 0, ok |-> FALSE]
             ELSE VersionWalk(tb, Col(tail_record, INDIRECTION_COLUMN), steps - 1)

\* Table.get_version: [values, schema]
get_version(tb, rid, relative_version) ==
    LET base_record == read_record(tb, rid)
        none == [values |-> NoValues, schema |-> None]
    IN  IF base_record = NoRecord THEN none
        ELSE IF relative_version = 0 THEN get_latest_version(tb, rid)
        ELSE
        LET of_base == [values |-> UserColumns(base_record),
                        schema |-> Col(base_record, SCHEMA_ENCODING_COLUMN)]
            tail_rid == Col(base_record, INDIRECTION_COLUMN)
            steps == IF relative_version < 0 THEN -relative_version ELSE relative_version
        IN  IF tail_rid = 0 THEN of_base
            ELSE LET w == VersionWalk(tb, tail_rid, steps)
                 IN  IF ~w.ok THEN none
                     ELSE IF w.rid = 0 THEN of_base
                     ELSE LET version_record == read_record(tb, w.rid)
                          IN  IF version_record = NoRecord THEN none
                              ELSE [values |-> UserColumns(version_record),
                                    schema |-> Col(version_record, SCHEMA_ENCODING_COLUMN)]

\* the RIDs of base records in the page directory
BaseRids(tb) == {r \in DOMAIN tb.page_directory : ~tb.page_directory[r].is_tail}

\* Index.locate(column, value): the index when the column has one, else a
\* scan of the page directory
locate(tb, column, value) ==
    IF tb.indices[column].present THEN IndexLocate(tb.indices[column], value)
    ELSE {r \in BaseRids(tb) :
            LET lv == get_latest_version(tb, r).values
            IN  lv # NoValues /\ lv[column + 1] = value}

\* a merge that consolidates: the latest values are copied into the base
\* record's user columns
MergeOneCopying(tb, rid) ==
    IF rid \notin DOMAIN tb.page_directory \/ tb.page_directory[rid].is_tail THEN tb
    ELSE
    LET loc == tb.page_directory[rid]
        base_record == ReadAt(tb, loc)
        tail_rid == Col(base_record, INDIRECTION_COLUMN)
    IN  IF \/ Col(base_record, RID_COLUMN) = DELETED_RID
           \/ tail_rid = 0
           \/ tail_rid <= tb.page_ranges[loc.range_idx + 1].tps
           \/ get_latest_version(tb, rid).values = NoValues
        THEN tb
        ELSE [tb EXCEPT !.page_ranges[loc.range_idx + 1].tps = tail_rid,
                        !.page_ranges[loc.range_idx + 1].base[loc.offset + 1] =
                            SubSeq(@, 1, 4) \o get_latest_version(tb, rid).values]

\* Table.__merge, one dirty RID, setting TPS to the record's INDIRECTION
\* whether or not it is above the page's TPS
MergeOneUnguarded(tb, rid) ==
    IF rid \notin DOMAIN tb.page_directory \/ tb.page_directory[rid].is_tail THEN tb
    ELSE
    LET loc == tb.page_directory[rid]
        base_record == ReadAt(tb, loc)
        tail_rid == Col(base_record, INDIRECTION_COLUMN)
    IN  IF \/ Col(base_record, RID_COLUMN) = DELETED_RID
           \/ tail_rid = 0
           \/ get_latest_version(tb, rid).values = NoValues
        THEN tb
        ELSE [tb EXCEPT !.page_ranges[loc.range_idx + 1].tps = tail_rid]

\* Table.__merge, one dirty RID: the base record is read in place; a record
\* that is deleted, has no tail or whose INDIRECTION is not above the page's
\* TPS is skipped; otherwise the page's TPS becomes the INDIRECTION.  No
\* record column is written.
MergeOne(tb, rid) ==
    IF rid \notin DOMAIN tb.page_directory \/ tb.page_directory[rid].is_tail THEN tb
    ELSE
    LET loc == tb.page_directory[rid]
        base_record == ReadAt(tb, loc)
        tail_rid == Col(base_record, INDIRECTION_COLUMN)
    IN  IF \/ Col(base_record, RID_COLUMN) = DELETED_RID
           \/ tail_rid = 0
           \/ tail_rid <= tb.page_ranges[loc.range_idx + 1].tps
           \/ get_latest_version(tb, rid).values = NoValues
        THEN tb
        ELSE [tb EXCEPT !.page_ranges[loc.range_idx + 1].tps = tail_rid]

RECURSIVE MergeEach(_, _)
MergeEach(tb, rids) ==
    IF rids = <<>> THEN tb
    ELSE MergeEach(MergeOne(tb, Head(rids)), Tail(rids))

\* Table.merge: one pass of __merge over a copy of the dirty set, which is
\* cleared, then updates_since_merge = 0.  The pass runs alone
\* (_merge_in_progress) and is taken as one step.
merge(tb) ==
    [MergeEach([tb EXCEPT !.rids_to_merge = {}], SetToSeq(tb.rids_to_merge))
        EXCEPT !.updates_since_merge = 0]

\* Table.record_modification
record_modification(tb, rid, modification_type, old_data) ==
    [tb EXCEPT !.transaction_modifications =
        Append(@, [transaction_id |-> tb.transaction_id, rid |-> rid,
                   type |-> modification_type, old_data |-> old_data])]

\* for col_num in range(from, num_columns): index.insert(col_num, values[col_num], rid),
\* stopping at the first call that raises: [tb, ok]
RECURSIVE IndexInsertAll(_, _, _, _)
IndexInsertAll(tb, values, rid, from) ==
    IF from >= num_columns THEN [tb |-> tb, ok |-> TRUE]
    ELSE LET r == IndexInsert(tb.indices[from], values[from + 1], rid)
             tb1 == [tb EXCEPT !.indices[from] = r.ix]
         IN  IF r.ok THEN IndexInsertAll(tb1, values, rid, from + 1)
             ELSE [tb |-> tb1, ok |-> FALSE]

\* for col_num in range(from, num_columns): index.delete(col_num, values[col_num], rid)
RECURSIVE IndexDeleteAll(_, _, _, _)
IndexDeleteAll(tb, values, rid, from) ==
    IF from >= num_columns THEN tb
    ELSE IndexDeleteAll([tb EXCEPT !.indices[from] = IndexDelete(@, values[from + 1], rid)],
                        values, rid, from + 1)

\* Table.insert: [tb, rid]; rid = None when the call raises
TableInsert(tb, columns) ==
    IF locate(tb, key, columns[key + 1]) # {}
    THEN [tb |-> tb, rid |-> None]                 \* ValueError: duplicate key
    ELSE
    LET rid == tb.next_rid
        full_record == <<0, rid, 0, 0>> \o columns
        g   == get_or_create_page_range([tb EXCEPT !.next_rid = @ + 1])
        offset == Len(g.tb.page_ranges[g.range_idx + 1].base)
        tb1 == [g.tb EXCEPT !.page_ranges[g.range_idx + 1].base = Append(@, full_record),
                            !.page_directory = MapPut(@, rid, Loc(g.range_idx, FALSE, offset))]
        i   == IndexInsertAll(tb1, columns, rid, 0)
    IN  IF i.ok
        THEN [tb |-> record_modification(i.tb, rid, "insert", NoRecord), rid |-> rid]
        ELSE [tb |-> i.tb, rid |-> None]

\* new_schema |= (1 << i)
BitSet(schema, i) == IF (schema \div (2 ^ i)) % 2 = 1 THEN schema ELSE schema + 2 ^ i

RECURSIVE SchemaOr(_, _, _)
SchemaOr(schema, columns, i) ==
    IF i >= num_columns THEN schema
    ELSE SchemaOr(IF columns[i + 1] # None THEN BitSet(schema, i) ELSE schema,
                  columns, i + 1)

\* a non-cumulative tail: the supplied columns as they are
MergedColumnsNonCumulative(latest_values, columns) == columns

\* the user columns of the new tail: the supplied value where it is not
\* None, the latest value otherwise
MergedColumns(latest_values, columns) ==
    [i \in 1 .. num_columns |->
        IF columns[i] # None THEN columns[i] ELSE latest_values[i]]

\* update_record handing out next_rid without advancing it
UpdateRecordReadNoAdvance(tb, rid) ==
    LET base_record == read_record(tb, rid)
    IN  IF base_record = NoRecord
        THEN [tb |-> tb, ok |-> FALSE, base_record |-> NoRecord,
              latest_values |-> NoValues, current_schema |-> None, tail_rid |-> None]
        ELSE
        LET tb1 == record_modification(tb, rid, "update", base_record)
            lv  == get_latest_version(tb1, rid)
        IN  [tb |-> tb1, ok |-> TRUE,
             base_record |-> base_record, latest_values |-> lv.values,
             current_schema |-> lv.schema, tail_rid |-> tb1.next_rid]

\* Table.update_record up to the allocation of the tail RID: the reads of the
\* base record and of the latest version, the journal entry, the new RID.
\* [tb, ok, base_record, latest_values, current_schema, tail_rid]
UpdateRecordRead(tb, rid) ==
    LET base_record == read_record(tb, rid)
    IN  IF base_record = NoRecord
        THEN [tb |-> tb, ok |-> FALSE, base_record |-> NoRecord,
              latest_values |-> NoValues, current_schema |-> None, tail_rid |-> None]
        ELSE
        LET tb1 == record_modification(tb, rid, "update", base_record)
            lv  == get_latest_version(tb1, rid)
        IN  [tb |-> [tb1 EXCEPT !.next_rid = @ + 1], ok |-> TRUE,
             base_record |-> base_record, latest_values |-> lv.values,
             current_schema |-> lv.schema, tail_rid |-> tb1.next_rid]

\* with self.index_lock: for (col, old, new) in updated_columns_info:
\*     index.update(col, old, new, rid)       -- [tb, ok]
RECURSIVE IndexUpdateAll(_, _, _, _, _)
IndexUpdateAll(tb, latest_values, columns, rid, from) ==
    IF from >= num_columns THEN [tb |-> tb, ok |-> TRUE]
    ELSE IF columns[from + 1] = None \/ ~tb.indices[from].present
    THEN IndexUpdateAll(tb, latest_values, columns, rid, from + 1)
    ELSE LET r == IndexUpdate(tb.indices[from], latest_values[from + 1],
                              columns[from + 1], rid)
             tb1 == [tb EXCEPT !.indices[from] = r.ix]
         IN  IF r.ok THEN IndexUpdateAll(tb1, latest_values, columns, rid, from + 1)
             ELSE [tb |-> tb1, ok |-> FALSE]

\* a tail record whose INDIRECTION is its own RID
TailDataSelfLinked(rd, columns) ==
    <<rd.tail_rid, rd.tail_rid, 0, SchemaOr(rd.current_schema, columns, 0)>>
    \o MergedColumns(rd.latest_values, columns)

\* The tail record update_record builds from what it read
TailData(rd, columns) ==
    <<Col(rd.base_record, INDIRECTION_COLUMN), rd.tail_rid, 0,
      SchemaOr(rd.current_schema, columns, 0)>>
    \o MergedColumns(rd.latest_values, columns)

\* Table.update_record from the choice of the tail range on: the tail write,
\* the directory entry, the base record's INDIRECTION and SCHEMA_ENCODING,
\* the index, the dirty set and the update counter.  [tb, ok]; ok is FALSE
\* when the call raises.
UpdateRecordWrite(tb, rid, rd, columns) ==
    LET new_schema == SchemaOr(rd.current_schema, columns, 0)
        tail_data == TailData(rd, columns)
        g == IF tb.current_tail_page_range = None
                \/ Len(tb.page_ranges[tb.current_tail_page_range + 1].tail)
                     >= RECORDS_PER_PAGE * PAGES_PER_RANGE
             THEN LET c == get_or_create_page_range(tb)
                  IN  [tb |-> [c.tb EXCEPT !.current_tail_page_range = c.range_idx],
                       range_idx |-> c.range_idx]
             ELSE [tb |-> tb, range_idx |-> tb.current_tail_page_range]
        offset == Len(g.tb.page_ranges[g.range_idx + 1].tail)
        tb1 == [g.tb EXCEPT !.page_ranges[g.range_idx + 1].tail = Append(@, tail_data),
                            !.page_directory =
                                MapPut(@, rd.tail_rid, Loc(g.range_idx, TRUE, offset))]
    IN  IF rid \notin DOMAIN tb1.page_directory
        THEN [tb |-> tb1, ok |-> FALSE]               \* KeyError: page_directory[rid]
        ELSE
        LET loc == tb1.page_directory[rid]
            tb2 == update_base_column(tb1, loc.range_idx, loc.offset,
                                      INDIRECTION_COLUMN, rd.tail_rid)
            tb3 == update_base_column(tb2, loc.range_idx, loc.offset,
                                      SCHEMA_ENCODING_COLUMN, new_schema)
            u   == IndexUpdateAll(tb3, rd.latest_values, columns, rid, 0)
        IN  IF ~u.ok THEN [tb |-> u.tb, ok |-> FALSE]
            ELSE [tb |-> [u.tb EXCEPT !.rids_to_merge = @ \cup {rid},
                                      !.updates_since_merge = @ + 1],
                  ok |-> TRUE]

\* Table.update_record run without interruption: [tb, ok]
update_record(tb, rid, columns) ==
    LET rd == UpdateRecordRead(tb, rid)
    IN  IF ~rd.ok THEN [tb |-> tb, ok |-> FALSE]
        ELSE UpdateRecordWrite(rd.tb, rid, rd, columns)

\* Table.delete_record: [tb, ok]
delete_record(tb, rid) ==
    IF rid \notin DOMAIN tb.page_directory THEN [tb |-> tb, ok |-> FALSE]
    ELSE
    LET loc == tb.page_directory[rid]
        base_record == read_record(tb, rid)
    IN  IF base_record = NoRecord THEN [tb |-> tb, ok |-> FALSE]
        ELSE
        LET tb1 == record_modification(tb, rid, "delete", base_record)
            lv  == get_latest_version(tb1, rid)
        IN  IF loc.is_tail \/ lv.values = NoValues THEN [tb |-> tb1, ok |-> FALSE]
            ELSE
            LET tb2 == update_base_column(tb1, loc.range_idx, loc.offset,
                                          RID_COLUMN, DELETED_RID)
            IN  [tb |-> IndexDeleteAll(tb2, lv.values, rid, 0), ok |-> TRUE]

\* rollback of an 'update' entry, the index part:
\* for col_num: if old_value != new_value: index.update(col_num, new_value, old_value, rid)
\* with old_value from the journaled base record and new_value from the
\* latest version read after the restore; a raise ends the loop (try/except)
RECURSIVE RollbackUpdateIndex(_, _, _, _, _)
RollbackUpdateIndex(tb, old_user_columns, current_values, rid, from) ==
    IF from >= num_columns THEN tb
    ELSE
    LET old_value == old_user_columns[from + 1]
        new_value == current_values[from + 1]
    IN  IF ~tb.indices[from].present \/ old_value = new_value
        THEN RollbackUpdateIndex(tb, old_user_columns, current_values, rid, from + 1)
        ELSE LET r == IndexUpdate(tb.indices[from], new_value, old_value, rid)
                 tb1 == [tb EXCEPT !.indices[from] = r.ix]
             IN  IF r.ok
                 THEN RollbackUpdateIndex(tb1, old_user_columns, current_values, rid, from + 1)
                 ELSE tb1

\* for col_idx in range(4, len(old_data)): update_base_column(offset, col_idx, old_data[col_idx])
RECURSIVE RestoreUserColumns(_, _, _, _)
RestoreUserColumns(tb, loc, old_data, col_idx) ==
    IF col_idx >= Len(old_data) THEN tb
    ELSE RestoreUserColumns(
            update_base_column(tb, loc.range_idx, loc.offset, col_idx, old_data[col_idx + 1]),
            loc, old_data, col_idx + 1)

\* Table.rollback_modifications, one journal entry
RollbackInsert(tb, mod) ==
    IF mod.rid \notin DOMAIN tb.page_directory THEN tb
    ELSE
    LET loc == tb.page_directory[mod.rid]
        tb1 == update_base_column(tb, loc.range_idx, loc.offset, RID_COLUMN, DELETED_RID)
        lv  == get_latest_version(tb1, mod.rid)
        tb2 == IF lv.values # NoValues THEN IndexDeleteAll(tb1, lv.values, mod.rid, 0)
               ELSE tb1
    IN  [tb2 EXCEPT !.page_directory = MapRemove(@, mod.rid)]

RollbackUpdate(tb, mod) ==
    LET tb1 == IF mod.rid \in DOMAIN tb.page_directory
               THEN LET loc == tb.page_directory[mod.rid]
                        r1 == RestoreUserColumns(tb, loc, mod.old_data, 4)
                        r2 == update_base_column(r1, loc.range_idx, loc.offset,
                                  INDIRECTION_COLUMN, Col(mod.old_data, INDIRECTION_COLUMN))
                    IN  update_base_column(r2, loc.range_idx, loc.offset,
                            SCHEMA_ENCODING_COLUMN, Col(mod.old_data, SCHEMA_ENCODING_COLUMN))
               ELSE tb
        current_values == get_latest_version(tb1, mod.rid).values
    IN  IF current_values # NoValues
        THEN RollbackUpdateIndex(tb1, UserColumns(mod.old_data), current_values, mod.rid, 0)
        ELSE tb1

RollbackDelete(tb, mod) ==
    IF mod.rid \notin DOMAIN tb.page_directory \/ tb.page_directory[mod.rid].is_tail
    THEN tb
    ELSE
    LET loc == tb.page_directory[mod.rid]
        tb1 == update_base_column(tb, loc.range_idx, loc.offset,
                                  RID_COLUMN, Col(mod.old_data, RID_COLUMN))
    IN  IndexInsertAll(tb1, UserColumns(mod.old_data), mod.rid, 0).tb

RollbackOne(tb, mod) ==
    IF mod.type = "insert" THEN RollbackInsert(tb, mod)
    ELSE IF mod.type = "update" THEN RollbackUpdate(tb, mod)
    ELSE RollbackDelete(tb, mod)

\* for mod in reversed(modifications)
RECURSIVE RollbackAll(_, _)
RollbackAll(tb, modifications) ==
    IF modifications = <<>> THEN tb
    ELSE RollbackAll(RollbackOne(tb, modifications[Len(modifications)]),
                     SubSeq(modifications, 1, Len(modifications) - 1))

\* [m for m in journal if (m['transaction_id'] == tid) == same]
RECURSIVE JournalFilter(_, _, _)
JournalFilter(journal, tid, same) ==
    IF journal = <<>> THEN <<>>
    ELSE (IF (Head(journal).transaction_id = tid) = same THEN <<Head(journal)>> ELSE <<>>)
         \o JournalFilter(Tail(journal), tid, same)

\* Table.rollback_modifications: the entries journaled under the table's
\* current transaction_id are taken out of the journal and undone, last first
rollback_modifications(tb) ==
    LET current_transaction_id == tb.transaction_id
        modifications == JournalFilter(tb.transaction_modifications,
                                       current_transaction_id, TRUE)
    IN  RollbackAll([tb EXCEPT !.transaction_modifications =
                                  JournalFilter(@, current_transaction_id, FALSE)],
                    modifications)

---------------------------------------------------------------------------
(* lock_manager.py.  A lock id is <<"rid", r>> for record r, <<"table", 0>> *)
(* for f"table_{name}" and <<"page_range", i>> for f"page_range_{name}_{i}". *)
(* Lock.waiting_queue is never written and is left out.                     *)

SHARED == "SHARED"
EXCLUSIVE == "EXCLUSIVE"

RidLock(rid) == <<"rid", rid>>
TableLock == <<"table", 0>>
PageRangeLock(range_idx) == <<"page_range", range_idx>>

\* Lock.__init__
NewLock == [lock_holders |-> {}, exclusive_holder |-> None]

\* Lock.acquire without the conflict check of a shared request against the
\* exclusive holder
LockAcquireSharedUnchecked(lock, transaction_id, lock_type) ==
    IF transaction_id \in lock.lock_holders
    THEN IF lock_type = EXCLUSIVE
         THEN IF Cardinality(lock.lock_holders) = 1 /\ lock.exclusive_holder = None
              THEN [lock |-> [lock EXCEPT !.lock_holders = @ \ {transaction_id},
                                          !.exclusive_holder = transaction_id],
                    ok |-> TRUE]
              ELSE [lock |-> lock, ok |-> FALSE]
         ELSE [lock |-> lock, ok |-> TRUE]
    ELSE IF transaction_id = lock.exclusive_holder
    THEN [lock |-> lock, ok |-> TRUE]
    ELSE IF lock_type = SHARED
    THEN [lock |-> [lock EXCEPT !.lock_holders = @ \cup {transaction_id}], ok |-> TRUE]
    ELSE IF lock.exclusive_holder = None /\ lock.lock_holders = {}
         THEN [lock |-> [lock EXCEPT !.exclusive_holder = transaction_id], ok |-> TRUE]
         ELSE [lock |-> lock, ok |-> FALSE]

\* Lock.acquire with an upgrade that does not look at the other holders
LockAcquireUpgradeUnchecked(lock, transaction_id, lock_type) ==
    IF transaction_id \in lock.lock_holders
    THEN IF lock_type = EXCLUSIVE
         THEN [lock |-> [lock EXCEPT !.lock_holders = @ \ {transaction_id},
                                     !.exclusive_holder = transaction_id],
               ok |-> TRUE]
         ELSE [lock |-> lock, ok |-> TRUE]
    ELSE IF transaction_id = lock.exclusive_holder
    THEN [lock |-> lock, ok |-> TRUE]
    ELSE IF lock_type = SHARED
    THEN IF lock.exclusive_holder = None
         THEN [lock |-> [lock EXCEPT !.lock_holders = @ \cup {transaction_id}], ok |-> TRUE]
         ELSE [lock |-> lock, ok |-> FALSE]
    ELSE IF lock.exclusive_holder = None /\ lock.lock_holders = {}
         THEN [lock |-> [lock EXCEPT !.exclusive_holder = transaction_id], ok |-> TRUE]
         ELSE [lock |-> lock, ok |-> FALSE]

\* Lock.acquire: [lock, ok]
LockAcquire(lock, transaction_id, lock_type) ==
    IF transaction_id \in lock.lock_holders
    THEN IF lock_type = EXCLUSIVE
         THEN IF Cardinality(lock.lock_holders) = 1 /\ lock.exclusive_holder = None
              THEN [lock |-> [lock EXCEPT !.lock_holders = @ \ {transaction_id},
                                          !.exclusive_holder = transaction_id],
                    ok |-> TRUE]
              ELSE [lock |-> lock, ok |-> FALSE]
         ELSE [lock |-> lock, ok |-> TRUE]
    ELSE IF transaction_id = lock.exclusive_holder
    THEN [lock |-> lock, ok |-> TRUE]
    ELSE IF lock_type = SHARED
    THEN IF lock.exclusive_holder = None
         THEN [lock |-> [lock EXCEPT !.lock_holders = @ \cup {transaction_id}], ok |-> TRUE]
         ELSE [lock |-> lock, ok |-> FALSE]
    ELSE IF lock.exclusive_holder = None /\ lock.lock_holders = {}
         THEN [lock |-> [lock EXCEPT !.exclusive_holder = transaction_id], ok |-> TRUE]
         ELSE [lock |-> lock, ok |-> FALSE]

\* Lock.release
LockRelease(lock, transaction_id) ==
    IF transaction_id \in lock.lock_holders
    THEN [lock EXCEPT !.lock_holders = @ \ {transaction_id}]
    ELSE IF transaction_id = lock.exclusive_holder
    THEN [lock EXCEPT !.exclusive_holder = None]
    ELSE lock

\* LockManager.acquire_lock: [lk, ok]
acquire_lock(lk, transaction_id, record_id, lock_type) ==
    LET lk1 == IF record_id \in DOMAIN lk THEN lk ELSE MapPut(lk, record_id, NewLock)
        r   == LockAcquire(lk1[record_id], transaction_id, lock_type)
    IN  [lk |-> [lk1 EXCEPT ![record_id] = r.lock], ok |-> r.ok]

\* LockManager.release_locks
release_locks(lk, transaction_id) ==
    [id \in DOMAIN lk |-> LockRelease(lk[id], transaction_id)]

\* for (record_id, lock_type) in records: acquire_lock(...), stopping at the
\* first refusal: [lk, ok, acquired], acquired being the (record_id,
\* lock_type) pairs added to Transaction.acquired_locks on the way
RECURSIVE AcquireAll(_, _, _, _)
AcquireAll(lk, transaction_id, ids, lock_type) ==
    IF ids = <<>> THEN [lk |-> lk, ok |-> TRUE, acquired |-> {}]
    ELSE Only({IF r.ok
               THEN [AcquireAll(r.lk, transaction_id, Tail(ids), lock_type)
                        EXCEPT !.acquired = @ \cup {<<Head(ids), lock_type>>}]
               ELSE [lk |-> r.lk, ok |-> FALSE, acquired |-> {}]
               : r \in {acquire_lock(lk, transaction_id, Head(ids), lock_type)}})

---------------------------------------------------------------------------
(* query.py.  One Query object serves the table (query = Query(table)); its *)
(* methods are what transactions hold as bound methods.  A world w is       *)
(* [tb, lk, acq]: the table, the lock table and Query.acquired_locks.       *)
(* Transaction calls the bound method with the query's arguments only, so  *)
(* the `transaction` keyword is None and in_transaction is False throughout.*)

QueryId == 0        \* id(self) of the Query object, the fallback lock owner

World(tb, lk, acq) == [tb |-> tb, lk |-> lk, acq |-> acq]

\* Query._get_page_ranges_for_rids
get_page_ranges_for_rids(tb, rids) ==
    SetToSeq({tb.page_directory[r].range_idx : r \in rids \cap DOMAIN tb.page_directory})

\* Query._release_locks(locks): one release_locks(table.transaction_id) per
\* entry of `locks`, each releasing every lock of that transaction id
QueryReleaseLocks(w, locks) ==
    IF ~w.tb.lock_manager \/ locks = <<>> THEN w
    ELSE [w EXCEPT !.lk = release_locks(@, w.tb.transaction_id)]

\* the loop of Query._acquire_locks: [lk, ok, acquired]
RECURSIVE AcquirePageRanges(_, _, _, _, _)
AcquirePageRanges(lk, transaction_id, page_ranges, lock_type, acquired) ==
    IF page_ranges = <<>> THEN [lk |-> lk, ok |-> TRUE, acquired |-> acquired]
    ELSE LET lock_id == PageRangeLock(Head(page_ranges))
         IN  Only({IF r.ok
                   THEN AcquirePageRanges(r.lk, transaction_id, Tail(page_ranges),
                                          lock_type, Append(acquired, lock_id))
                   ELSE [lk |-> r.lk, ok |-> FALSE, acquired |-> acquired]
                   : r \in {acquire_lock(lk, transaction_id, lock_id, lock_type)}})

\* Query._acquire_locks: [w, ok]
QueryAcquireLocks(w, rids, lock_type) ==
    IF ~w.tb.lock_manager THEN [w |-> w, ok |-> TRUE]
    ELSE
    LET transaction_id == IF w.tb.transaction_id # None THEN w.tb.transaction_id
                          ELSE QueryId
    IN  Only({IF a.ok
              THEN [w |-> [w EXCEPT !.lk = a.lk, !.acq = @ \o a.acquired], ok |-> TRUE]
              ELSE [w |-> QueryReleaseLocks([w EXCEPT !.lk = a.lk], a.acquired),
                    ok |-> FALSE]
              : a \in {AcquirePageRanges(w.lk, transaction_id,
                                         get_page_ranges_for_rids(w.tb, rids),
                                         lock_type, <<>>)}})

\* Query._begin_2pl
begin_2pl(w) == [w EXCEPT !.acq = <<>>]

\* Query._end_2pl
end_2pl(w) == [QueryReleaseLocks(w, w.acq) EXCEPT !.acq = <<>>]

\* A query's result: ok = FALSE is the Python value False; rows are the
\* Records a select returns, as [rid, key, columns]
Failed == [ok |-> FALSE, rows |-> <<>>]
Done(rows) == [ok |-> TRUE, rows |-> rows]

\* Query.insert from the call of table.insert on: [w, res]
InsertAndEnd(w, columns) ==
    Only({[w |-> end_2pl([w EXCEPT !.tb = i.tb]),
           res |-> IF i.rid = None THEN Failed ELSE Done(<<>>)]
          : i \in {TableInsert(w.tb, columns)}})

\* Query.insert: [w, res]
QueryInsert(w0, columns) ==
    LET w == begin_2pl(w0)
    IN  IF ~w.tb.lock_manager THEN InsertAndEnd(w, columns)
        ELSE
        Only({Only({IF ~a.ok
                    THEN [w |-> end_2pl([w EXCEPT !.tb = g.tb, !.lk = a.lk]), res |-> Failed]
                    ELSE InsertAndEnd([w EXCEPT !.tb = g.tb, !.lk = a.lk,
                                                !.acq = Append(@, PageRangeLock(g.range_idx))],
                                      columns)
                    : a \in {acquire_lock(w.lk, w.tb.transaction_id,
                                          PageRangeLock(g.range_idx), EXCLUSIVE)}})
              : g \in {get_or_create_page_range(w.tb)}})

\* for rid in rids: table.update_record(rid, columns), a False or a raise
\* ending the loop: [tb, ok]
RECURSIVE UpdateEach(_, _, _)
UpdateEach(tb, rids, columns) ==
    IF rids = <<>> THEN [tb |-> tb, ok |-> TRUE]
    ELSE Only({IF u.ok THEN UpdateEach(u.tb, Tail(rids), columns)
               ELSE [tb |-> u.tb, ok |-> FALSE]
               : u \in {update_record(tb, Head(rids), columns)}})

\* Query.update up to its execution phase: the arity and key checks, the
\* index lookup and the page-range locks.  [w, ok, rids]
QueryUpdatePrologue(w0, primary_key, columns) ==
    LET w == begin_2pl(w0)
        rids == locate(w.tb, key, primary_key)
    IN  IF columns[key + 1] # None /\ columns[key + 1] # primary_key
           /\ locate(w.tb, key, columns[key + 1]) # {}
        THEN [w |-> end_2pl(w), ok |-> FALSE, rids |-> <<>>]
        ELSE IF rids = {}
        THEN [w |-> end_2pl(w), ok |-> FALSE, rids |-> <<>>]
        ELSE Only({IF ~a.ok THEN [w |-> end_2pl(a.w), ok |-> FALSE, rids |-> <<>>]
                   ELSE [w |-> a.w, ok |-> TRUE, rids |-> SetToSeq(rids)]
                   : a \in {QueryAcquireLocks(w, rids, EXCLUSIVE)}})

\* Query.update: [w, res]
QueryUpdate(w0, primary_key, columns) ==
    Only({IF ~p.ok THEN [w |-> p.w, res |-> Failed]
          ELSE Only({[w |-> end_2pl([p.w EXCEPT !.tb = u.tb]),
                      res |-> IF u.ok THEN Done(<<>>) ELSE Failed]
                     : u \in {UpdateEach(p.w.tb, p.rids, columns)}})
          : p \in {QueryUpdatePrologue(w0, primary_key, columns)}})

\* for rid in rids: table.delete_record(rid): [tb, ok]
RECURSIVE DeleteEach(_, _)
DeleteEach(tb, rids) ==
    IF rids = <<>> THEN [tb |-> tb, ok |-> TRUE]
    ELSE Only({IF d.ok THEN DeleteEach(d.tb, Tail(rids))
               ELSE [tb |-> d.tb, ok |-> FALSE]
               : d \in {delete_record(tb, Head(rids))}})

\* Query.delete: [w, res]
QueryDelete(w0, primary_key) ==
    LET w == begin_2pl(w0)
        rids == locate(w.tb, key, primary_key)
    IN  IF rids = {} THEN [w |-> end_2pl(w), res |-> Failed]
        ELSE Only({IF ~a.ok THEN [w |-> end_2pl(a.w), res |-> Failed]
                   ELSE Only({[w |-> end_2pl([a.w EXCEPT !.tb = d.tb]),
                               res |-> IF d.ok THEN Done(<<>>) ELSE Failed]
                              : d \in {DeleteEach(a.w.tb, SetToSeq(rids))}})
                   : a \in {QueryAcquireLocks(w, rids, EXCLUSIVE)}})

\* the rows of Query.select / select_version for the RIDs found
RECURSIVE SelectRows(_, _, _, _)
SelectRows(tb, rids, projected_columns_index, relative_version) ==
    IF rids = <<>> THEN <<>>
    ELSE LET values == get_version(tb, Head(rids), relative_version).values
             rest == SelectRows(tb, Tail(rids), projected_columns_index, relative_version)
         IN  IF values = NoValues THEN rest
             ELSE <<[rid |-> Head(rids), key |-> values[key + 1],
                     columns |-> [i \in 1 .. num_columns |->
                                    IF projected_columns_index[i] = 1 THEN values[i]
                                    ELSE None]]>> \o rest

\* Query.select: [w, res]
QuerySelect(w0, search_key, search_key_index, projected_columns_index) ==
    LET w == begin_2pl(w0)
        by_index == IF w.tb.indices[search_key_index].present
                    THEN IndexLocate(w.tb.indices[search_key_index], search_key)
                    ELSE {}
        rids == IF by_index # {} THEN by_index
                ELSE {r \in BaseRids(w.tb) :
                        LET lv == get_latest_version(w.tb, r).values
                        IN  lv # NoValues /\ lv[search_key_index + 1] = search_key}
    IN  Only({IF ~a.ok THEN [w |-> end_2pl(a.w), res |-> Failed]
              ELSE [w |-> end_2pl(a.w),
                    res |-> Done(SelectRows(a.w.tb, SetToSeq(rids),
                                            projected_columns_index, 0))]
              : a \in {QueryAcquireLocks(w, rids, SHARED)}})

\* Query.select_version: [w, res]
QuerySelectVersion(w0, search_key, search_key_index, projected_columns_index, relative_version) ==
    LET w == begin_2pl(w0)
        rids == locate(w.tb, search_key_index, search_key)
    IN  IF rids = {} THEN [w |-> end_2pl(w), res |-> Done(<<>>)]
        ELSE Only({IF ~a.ok THEN [w |-> end_2pl(a.w), res |-> Failed]
                   ELSE [w |-> end_2pl(a.w),
                         res |-> Done(SelectRows(a.w.tb, SetToSeq(rids),
                                                 projected_columns_index, relative_version))]
                   : a \in {QueryAcquireLocks(w, rids, SHARED)}})

\* total += values[aggregate_column_index] over the RIDs whose latest version
\* is readable
RECURSIVE SumValues(_, _, _, _)
SumValues(tb, rids, aggregate_column_index, total) ==
    IF rids = <<>> THEN total
    ELSE SumValues(tb, Tail(rids), aggregate_column_index,
                   IF get_latest_version(tb, Head(rids)).values = NoValues THEN total
                   ELSE total + get_latest_version(tb, Head(rids)).values[
                                    aggregate_column_index + 1])

\* Query.sum: [w, ok, total]; ok = FALSE is the Python value False.  A
\* locate_range that does not return leaves the call without a result, which
\* is reported as a failure here.
QuerySum(w0, start_range, end_range, aggregate_column_index) ==
    Only({IF l.end # "return" \/ l.rids = {}
          THEN [w |-> end_2pl(begin_2pl(w0)), ok |-> FALSE, total |-> 0]
          ELSE Only({[w |-> end_2pl(a.w), ok |-> a.ok,
                      total |-> IF a.ok
                                THEN SumValues(a.w.tb, SetToSeq(l.rids),
                                               aggregate_column_index, 0)
                                ELSE 0]
                     : a \in {QueryAcquireLocks(begin_2pl(w0), l.rids, SHARED)}})
          : l \in {IndexLocateRange(w0.tb.indices[key], start_range, end_range)}})

---------------------------------------------------------------------------
(* transaction.py.  A query of a transaction is [op, k, col, columns]:      *)
(*   insert:  columns are the values                                        *)
(*   update:  k is the primary key, columns the values or None              *)
(*   delete:  k is the primary key                                          *)
(*   select:  k is the search key, col the search column, columns the       *)
(*            projection mask                                               *)
(* A transaction's id is id(self); transaction t has id t.                  *)

NoColumns == [i \in 1 .. num_columns |-> None]
AllColumns == [i \in 1 .. num_columns |-> 1]

Insert(columns) == [op |-> "insert", k |-> None, col |-> key, columns |-> columns]
Update(primary_key, columns) ==
    [op |-> "update", k |-> primary_key, col |-> key, columns |-> columns]
Delete(primary_key) == [op |-> "delete", k |-> primary_key, col |-> key, columns |-> NoColumns]
Select(search_key, search_key_index) ==
    [op |-> "select", k |-> search_key, col |-> search_key_index, columns |-> AllColumns]

\* query(args) for the bound Query method: [w, res]
ExecQuery(w, q) ==
    IF q.op = "insert" THEN QueryInsert(w, q.columns)
    ELSE IF q.op = "update" THEN QueryUpdate(w, q.k, q.columns)
    ELSE IF q.op = "delete" THEN QueryDelete(w, q.k)
    ELSE QuerySelect(w, q.k, q.col, q.columns)

\* Transaction._get_records_for_query: the lock ids, and the lock type
RecordsForQuery(tb, q) ==
    IF q.op = "insert" THEN <<TableLock>>
    ELSE LET rids == SetToSeq(locate(tb, q.col, q.k))
         IN  [i \in 1 .. Len(rids) |-> RidLock(rids[i])]

LockTypeForQuery(q) == IF q.op = "select" THEN SHARED ELSE EXCLUSIVE

\* Transaction._acquire_locks_for_query: [lk, ok, acquired]
acquire_locks_for_query(w, transaction_id, q) ==
    AcquireAll(w.lk, transaction_id, RecordsForQuery(w.tb, q), LockTypeForQuery(q))

\* _run_with_locking, "Set transaction context on all tables"
SetContext(tb, transaction_id) ==
    [tb EXCEPT !.transaction_id = transaction_id, !.lock_manager = TRUE]

\* "Clear transaction context"
ClearContext(tb) == [tb EXCEPT !.transaction_id = None, !.lock_manager = FALSE]

\* Transaction.abort
TxAbort(w, transaction_id) ==
    [w EXCEPT !.tb = ClearContext(rollback_modifications(w.tb)),
              !.lk = release_locks(w.lk, transaction_id)]

\* Transaction.commit
TxCommit(w, transaction_id) ==
    [w EXCEPT !.lk = release_locks(w.lk, transaction_id),
              !.tb = [ClearContext(w.tb) EXCEPT !.transaction_modifications =
                        JournalFilter(@, transaction_id, FALSE)]]

\* the grow phase: [w, ok]
RECURSIVE GrowAll(_, _, _)
GrowAll(w, transaction_id, queries) ==
    IF queries = <<>> THEN [w |-> w, ok |-> TRUE]
    ELSE Only({IF a.ok THEN GrowAll([w EXCEPT !.lk = a.lk], transaction_id, Tail(queries))
               ELSE [w |-> [w EXCEPT !.lk = a.lk], ok |-> FALSE]
               : a \in {acquire_locks_for_query(w, transaction_id, Head(queries))}})

\* an execution phase that invokes the remaining queries after a failure
RECURSIVE ExecAllNoStop(_, _, _)
ExecAllNoStop(w, queries, results) ==
    IF queries = <<>> THEN [w |-> w, ok |-> TRUE, results |-> results]
    ELSE Only({IF e.res.ok THEN ExecAllNoStop(e.w, Tail(queries), Append(results, e.res))
               ELSE [ExecAllNoStop(e.w, Tail(queries), results) EXCEPT !.ok = FALSE]
               : e \in {ExecQuery(w, Head(queries))}})

\* the execution phase: [w, ok, results].  _record_pre_modification_state
\* only reads the table and appends to Transaction.modifications, which
\* nothing reads: it is left out.
RECURSIVE ExecAll(_, _, _)
ExecAll(w, queries, results) ==
    IF queries = <<>> THEN [w |-> w, ok |-> TRUE, results |-> results]
    ELSE Only({IF e.res.ok THEN ExecAll(e.w, Tail(queries), Append(results, e.res))
               ELSE [w |-> e.w, ok |-> FALSE, results |-> results]
               : e \in {ExecQuery(w, Head(queries))}})

\* Transaction._run_with_locking, one attempt run without interruption:
\* [w, committed, results]
run_with_locking(w, transaction_id, queries) ==
    Only({IF ~g.ok
          THEN [w |-> TxAbort(g.w, transaction_id), committed |-> FALSE, results |-> <<>>]
          ELSE Only({IF ~e.ok
                     THEN [w |-> TxAbort(e.w, transaction_id), committed |-> FALSE,
                           results |-> e.results]
                     ELSE [w |-> TxCommit(e.w, transaction_id), committed |-> TRUE,
                           results |-> e.results]
                     : e \in {ExecAll(g.w, queries, <<>>)}})
          : g \in {GrowAll([w EXCEPT !.tb = SetContext(@, transaction_id)],
                           transaction_id, queries)}})

---------------------------------------------------------------------------
(* "Project 2/lstore"/bufferpool.py.  frames maps a page id to its frame    *)
(* (pin count, dirty flag), lru is the OrderedDict's key order.  Bufferpool *)
(* takes no lock: the threads calling it (the caller's thread and the merge *)
(* thread) interleave between its statements.  threads[t] is thread t's     *)
(* position: "idle"; in fix_page before evict() ("evict"), inside evict()    *)
(* after it has found frame["pin"] == 0 for victim_id ("remove"), before    *)
(* the load ("load"); "fixed" between fix_page's return and unfix_page.      *)

PoolThreads == {1, 2}
PoolCapacity == 1    \* Bufferpool(disk_manager, capacity)
PoolPages == 1 .. PoolCapacity + 1    \* one page more than the pool holds

\* Bufferpool.__init__, and the threads outside any call
Bufferpool ==
    [frames |-> <<>>, lru |-> <<>>,
     threads |-> [t \in PoolThreads |-> [pc |-> "idle", page_id |-> None,
                                         victim_id |-> None]]]

---------------------------------------------------------------------------
(* The values callers pass *)

KeyVals == {1, 2}    \* primary keys

\* the update arguments: one column set, the other unchanged; records are
\* inserted with value 10 and updated to 20
UpdateColumns == {<<k, None>> : k \in KeyVals} \cup {<<None, 20>>}

\* the queries a caller issues
Modifications ==
    {Insert(<<k, 10>>) : k \in KeyVals}
    \cup {Update(k, c) : k \in KeyVals, c \in UpdateColumns}
    \cup {Delete(k) : k \in KeyVals}

---------------------------------------------------------------------------
(* SpecSeq: one thread runs transactions of one or two queries, one after  *)
(* the other, each in one attempt (Transaction.run(auto_retry=False) with  *)
(* the database's lock manager).                                           *)

MaxRid == 3          \* no step starts once MaxRid RIDs are allocated
MaxNodes == 4        \* nor once an index holds more than MaxNodes nodes

SeqTid == 1

Programs == {<<q>> : q \in Modifications}
            \cup {<<q1, q2>> : q1 \in Modifications, q2 \in Modifications}

TheWorld == World(table, lockTable, acquired_locks)

SeqInBounds ==
    /\ table.next_rid <= MaxRid
    /\ \A c \in UserCols : Len(table.indices[c].nodes) <= MaxNodes

InitSeq ==
    /\ table = EmptyTable
    /\ lockTable = <<>>
    /\ acquired_locks = <<>>
    /\ txns = <<>>
    /\ obs = [op |-> "init", ok |-> TRUE]
    /\ pool = Bufferpool

SetWorld(w) ==
    /\ table' = w.tb
    /\ lockTable' = w.lk
    /\ acquired_locks' = w.acq

\* a transaction, run to its commit or abort
SeqRun ==
    /\ SeqInBounds
    /\ \E program \in Programs :
         \E r \in {run_with_locking(TheWorld, SeqTid, program)} :
             /\ SetWorld(r.w)
             /\ obs' = [op |-> "run", ok |-> r.committed]
    /\ UNCHANGED <<txns, pool>>

NextSeq == SeqRun

SpecSeq == InitSeq /\ [][NextSeq]_vars

---------------------------------------------------------------------------
(* SpecLock: the LockManager alone, called with any transaction id, lock   *)
(* id and lock type, in any order.                                         *)

MaxTid == 3          \* transaction ids are 1 .. MaxTid
MaxLockRid == 2      \* record locks are for RIDs 1 .. MaxLockRid

LockTids == (1 .. MaxTid) \cup {None}
LockIds == {RidLock(r) : r \in 1 .. MaxLockRid} \cup {TableLock}

InitLock ==
    /\ table = EmptyTable
    /\ lockTable = <<>>
    /\ acquired_locks = <<>>
    /\ txns = <<>>
    /\ obs = [op |-> "init", ok |-> TRUE]
    /\ pool = Bufferpool

LockMgrAcquire ==
    /\ \E tid \in LockTids, id \in LockIds, lock_type \in {SHARED, EXCLUSIVE} :
         \E r \in {acquire_lock(lockTable, tid, id, lock_type)} :
             /\ lockTable' = r.lk
             /\ obs' = [op |-> "acquire", ok |-> r.ok]
    /\ UNCHANGED <<table, acquired_locks, txns, pool>>

LockMgrRelease ==
    /\ \E tid \in LockTids : lockTable' = release_locks(lockTable, tid)
    /\ obs' = [op |-> "release", ok |-> TRUE]
    /\ UNCHANGED <<table, acquired_locks, txns, pool>>

NextLock == LockMgrAcquire \/ LockMgrRelease

SpecLock == InitLock /\ [][NextLock]_vars

\* the transaction ids holding lock id, in either mode
Holders(lk, id) ==
    lk[id].lock_holders \cup ({lk[id].exclusive_holder} \ {None})

\* C4: lock mutual exclusion.  For every lock id of the lock manager, when
\* an exclusive holder is set the shared-holder set is empty, so the
\* exclusive holder is the only transaction id holding the lock.
C4_MutualExclusion ==
    \A id \in DOMAIN lockTable :
        lockTable[id].exclusive_holder /= None
            => /\ lockTable[id].lock_holders = {}
               /\ Holders(lockTable, id) = {lockTable[id].exclusive_holder}

\* a request was refused while some lock is held exclusively and another
\* is shared by two transactions
C4_Witness ==
    /\ obs.op = "acquire" /\ ~obs.ok
    /\ \E id \in DOMAIN lockTable : lockTable[id].exclusive_holder /= None
    /\ \E id \in DOMAIN lockTable : Cardinality(lockTable[id].lock_holders) >= 2

---------------------------------------------------------------------------
(* Properties of the table under SpecSeq *)

\* the base RIDs whose record is readable (not tombstoned)
LiveRids(tb) == {r \in BaseRids(tb) : read_record(tb, r) # NoRecord}

\* an index as the function value -> RID set
IndexEntries(ix) == [v \in DOMAIN ix.idx_map |-> ix.nodes[ix.idx_map[v]].rids]

\* the base records as stored: INDIRECTION, RID, SCHEMA_ENCODING, user columns
BaseView(tb) ==
    [i \in 1 .. Len(tb.page_ranges) |->
        [j \in 1 .. Len(tb.page_ranges[i].base) |->
            LET rec == tb.page_ranges[i].base[j]
            IN  <<Col(rec, INDIRECTION_COLUMN), Col(rec, RID_COLUMN),
                  Col(rec, SCHEMA_ENCODING_COLUMN)>> \o UserColumns(rec)]]

\* what an abort is to restore
AbortView(tb) ==
    [indices |-> [c \in UserCols |-> IndexEntries(tb.indices[c])],
     page_directory |-> tb.page_directory,
     base |-> BaseView(tb)]

\* C3: abort atomicity.  A step that runs a transaction which aborts leaves
\* every index, the page directory and every base record's INDIRECTION, RID,
\* SCHEMA_ENCODING and user columns as they were before the transaction.
C3_AbortAtomicity ==
    [][(obs'.op = "run" /\ ~obs'.ok) => AbortView(table') = AbortView(table)]_vars

\* the live record with primary key k, if any
LiveWithKey(tb, k) ==
    {r \in LiveRids(tb) : get_latest_version(tb, r).values[key + 1] = k}

\* C5: insert uniqueness.  Whenever some live record has primary key k, an
\* insert of a record with key k returns False and leaves the table as it is.
C5_InsertUniqueness ==
    \A k \in KeyVals :
        LiveWithKey(table, k) # {} =>
            LET e == QueryInsert(TheWorld, <<k, 10>>)
            IN  ~e.res.ok /\ e.w.tb = table

\* C6: index/store consistency.  (a) every (value, rid) entry of a column's
\* index names a live record whose latest value in that column is the value;
\* (b) every live record is located by its latest value in an indexed column.
C6_IndexConsistency ==
    \A c \in UserCols :
        table.indices[c].present =>
            /\ \A v \in DOMAIN table.indices[c].idx_map :
                 \A r \in IndexEntries(table.indices[c])[v] :
                    /\ r \in LiveRids(table)
                    /\ get_latest_version(table, r).values[c + 1] = v
            /\ \A r \in LiveRids(table) :
                 r \in locate(table, c, get_latest_version(table, r).values[c + 1])

\* C7: cumulative update.  On every reachable table, a successful
\* update_record of a live record makes get_latest_version return, per user
\* column, the supplied value when it is not None and the previous latest
\* value otherwise.
C7_CumulativeUpdate ==
    \A r \in LiveRids(table) : \A columns \in UpdateColumns :
        LET prev == get_latest_version(table, r).values
            u    == update_record(table, r, columns)
        IN  u.ok =>
                get_latest_version(u.tb, r).values =
                    [i \in 1 .. num_columns |->
                        IF columns[i] # None THEN columns[i] ELSE prev[i]]

\* the tail RIDs on the indirection chain of a record, newest first, read
\* from the stored records
RECURSIVE ChainFrom(_, _, _)
ChainFrom(tb, rid, fuel) ==
    IF rid = 0 \/ fuel = 0 \/ rid \notin DOMAIN tb.page_directory THEN <<>>
    ELSE <<rid>> \o ChainFrom(tb, Col(ReadAt(tb, tb.page_directory[rid]), INDIRECTION_COLUMN),
                              fuel - 1)

Chain(tb, rid) ==
    ChainFrom(tb, Col(ReadAt(tb, tb.page_directory[rid]), INDIRECTION_COLUMN), tb.next_rid)

TailColumns(tb, rid) == UserColumns(ReadAt(tb, tb.page_directory[rid]))

\* a record was updated at least twice and its two newest versions differ
LongChain(tb) ==
    \E r \in LiveRids(tb) :
        /\ Len(Chain(tb, r)) >= 2
        /\ TailColumns(tb, Chain(tb, r)[1]) # TailColumns(tb, Chain(tb, r)[2])

\* a transaction has committed and some record has been updated twice
C7_Witness == obs.op = "run" /\ obs.ok /\ LongChain(table)

MaxVersion == 3      \* relative versions 0 .. -MaxVersion are looked up

\* C8: version lookup.  For a live record with L tails on its chain,
\* get_version(rid, 0) is the newest tail (the base when L = 0),
\* get_version(rid, -k) for 1 <= k < L is the tail k steps older, and for
\* k >= L it is the base record's user columns.
C8_VersionLookup ==
    \A r \in LiveRids(table) :
        LET ch == Chain(table, r)
            L  == Len(ch)
            base_columns == TailColumns(table, r)
        IN  /\ get_version(table, r, 0).values =
                   IF L = 0 THEN base_columns ELSE TailColumns(table, ch[1])
            /\ \A k \in 1 .. MaxVersion :
                   get_version(table, r, -k).values =
                       IF k < L THEN TailColumns(table, ch[k + 1]) ELSE base_columns

\* some record has a chain of two different tails, so that version -1 is a
\* tail and version -2 the base
C8_Witness == LongChain(table) /\ \E r \in LiveRids(table) : Len(Chain(table, r)) = 2

\* C11: delete hides the record.  On every reachable table, when delete(pk)
\* returns True, then for each record it deleted: read_record and
\* get_latest_version return no record, select(pk, key, mask) returns the
\* empty list, the RID is in no entry of any index, a sum over a key range
\* containing pk counts nothing for it, and a second delete(pk) returns False.
C11_DeleteHides ==
    \A k \in KeyVals : \A d \in {QueryDelete(TheWorld, k)} :
        d.res.ok =>
            \A r \in locate(table, key, k) :
                /\ read_record(d.w.tb, r) = NoRecord
                /\ get_latest_version(d.w.tb, r).values = NoValues
                /\ QuerySelect(d.w, k, key, AllColumns).res = Done(<<>>)
                /\ \A c \in UserCols : \A v \in DOMAIN d.w.tb.indices[c].idx_map :
                       r \notin IndexEntries(d.w.tb.indices[c])[v]
                /\ \A lo \in KeyVals, hi \in KeyVals :
                       (lo <= k /\ k <= hi) =>
                           \A l \in {IndexLocateRange(d.w.tb.indices[key], lo, hi)} :
                               QuerySum(d.w, lo, hi, 1).total =
                                   SumValues(d.w.tb, SetToSeq(l.rids \ {r}), 1, 0)
                /\ ~QueryDelete(d.w, k).res.ok

---------------------------------------------------------------------------
(* SpecKey: as SpecSeq, with three primary keys and transactions that      *)
(* change a record's key: a transaction is one query, or the same query    *)
(* twice (the second one then fails and the transaction aborts).           *)

MoreKeys == KeyVals \cup {3}

KeyPrograms ==
    {IF twice THEN <<q, q>> ELSE <<q>> :
        q \in {Insert(<<k, 10>>) : k \in MoreKeys}
              \cup {Update(k, <<k2, None>>) : k \in MoreKeys, k2 \in MoreKeys}
              \cup {Delete(k) : k \in MoreKeys},
        twice \in BOOLEAN}

KeyRun ==
    /\ SeqInBounds
    /\ \E program \in KeyPrograms :
         \E r \in {run_with_locking(TheWorld, SeqTid, program)} :
             /\ SetWorld(r.w)
             /\ obs' = [op |-> "run", ok |-> r.committed]
    /\ UNCHANGED <<txns, pool>>

SpecKey == InitSeq /\ [][KeyRun]_vars

\* C12: an update that supplies a key different from the record's current
\* key and equal to the key of another live record returns False and leaves
\* the table as it is: no tail record, no RID allocated, indexes and base
\* records unchanged.
C12_KeyChangeRefused ==
    \A k \in MoreKeys, k2 \in MoreKeys :
        (/\ k2 # k
         /\ locate(table, key, k) # {}
         /\ locate(table, key, k) \subseteq LiveWithKey(table, k)
         /\ LiveWithKey(table, k2) # {})
            => \A u \in {QueryUpdate(TheWorld, k, <<k2, None>>)} :
                  ~u.res.ok /\ u.w.tb = table

---------------------------------------------------------------------------
(* Spec: transactions run by concurrent threads (TransactionWorker) on one *)
(* table, one Query object and one LockManager.  Thread t runs transaction *)
(* t, whose id is t.  A step is one of: setting the transaction context,   *)
(* the lock acquisition of one query, one query (an update in two steps:   *)
(* up to the read of the latest version, and from the tail write on), the  *)
(* commit, the abort.  txns[t] holds the transaction's queries and the     *)
(* thread's position:                                                      *)
(*   pc        "start", "grow", "exec", "write", "abort" (before abort()), *)
(*             "clear" (in abort(), before the context is cleared),        *)
(*             "committed", "failed"                                       *)
(*   transaction_id, acquired_locks   the Transaction's fields             *)
(*   i         the index of the next query of the phase                    *)
(*   results   the results of the queries executed in this attempt         *)
(*   rids, rd  the local variables of an update between its two steps      *)
(*   attempts  the number of attempts started                              *)

MaxAttempts == 2     \* max_retries: run() gives up after MaxAttempts attempts

Tids == {1, 2}       \* two threads, transactions 1 and 2

\* the table the transactions start on: key 1 inserted by Query.insert
InitWorld == QueryInsert(World(EmptyTable, <<>>, <<>>), <<1, 10>>).w

\* the transactions the threads are given
ConcPrograms ==
    { <<Select(1, key), Select(1, key)>>,
      <<Update(1, <<None, 20>>), Select(1, key)>>,
      <<Select(1, key), Update(1, <<None, 20>>)>>,
      <<Update(1, <<None, 30>>)>>,
      <<Update(1, <<1, None>>)>> }

NoLocals == [base_record |-> NoRecord, latest_values |-> NoValues,
             current_schema |-> None, tail_rid |-> None]

\* Transaction.__init__ and add_query; transaction_id = id(self) is t for
\* the Transaction object of thread t
NewTxn(t, queries) ==
    [queries |-> queries, pc |-> "start", i |-> 1, results |-> <<>>,
     rids |-> <<>>, rd |-> NoLocals, attempts |-> 1,
     transaction_id |-> t, acquired_locks |-> {}]

Init ==
    /\ table = InitWorld.tb
    /\ lockTable = InitWorld.lk
    /\ acquired_locks = InitWorld.acq
    /\ \E programs \in [Tids -> ConcPrograms] :
          txns = [t \in Tids |-> NewTxn(t, programs[t])]
    /\ obs = [op |-> "init", ok |-> TRUE]
    /\ pool = Bufferpool

\* the queries of transaction t that remain in the current phase
Current(t) == txns[t].queries[txns[t].i]

\* after query i of a phase: the next query, or the next phase
Advance(t, results) ==
    [txns[t] EXCEPT !.i = @ + 1, !.results = results, !.pc = "exec",
                    !.rids = <<>>, !.rd = NoLocals]

ToAbort(t) == [txns[t] EXCEPT !.pc = "abort", !.rids = <<>>, !.rd = NoLocals]

\* Transaction._reset_for_retry, for the next attempt of run(): the locks
\* and the id are set anew, the id to id(self) again
reset_for_retry(t) ==
    [txns[t] EXCEPT !.pc = "start", !.i = 1, !.results = <<>>,
                    !.acquired_locks = {}, !.transaction_id = t,
                    !.attempts = @ + 1]

\* _run_with_locking: table.transaction_id = self.transaction_id,
\* table.lock_manager = self.lock_manager
Begin(t) ==
    /\ txns[t].pc = "start"
    /\ table' = SetContext(table, t)
    /\ txns' = [txns EXCEPT ![t].pc = "grow", ![t].i = 1]
    /\ UNCHANGED <<lockTable, acquired_locks, obs, pool>>

\* grow phase, one query
Grow(t) ==
    /\ txns[t].pc = "grow"
    /\ \E a \in {acquire_locks_for_query(TheWorld, t, Current(t))} :
           /\ lockTable' = a.lk
           /\ txns' = [txns EXCEPT ![t] =
                  IF ~a.ok
                  THEN [ToAbort(t) EXCEPT !.acquired_locks = @ \cup a.acquired]
                  ELSE IF txns[t].i = Len(txns[t].queries)
                  THEN [txns[t] EXCEPT !.pc = "exec", !.i = 1,
                                       !.acquired_locks = @ \cup a.acquired]
                  ELSE [txns[t] EXCEPT !.i = @ + 1,
                                       !.acquired_locks = @ \cup a.acquired]]
    /\ UNCHANGED <<table, acquired_locks, obs, pool>>

\* execution phase, one insert, delete or select
Exec(t) ==
    /\ txns[t].pc = "exec"
    /\ txns[t].i <= Len(txns[t].queries)
    /\ Current(t).op # "update"
    /\ \E e \in {ExecQuery(TheWorld, Current(t))} :
           /\ SetWorld(e.w)
           /\ txns' = [txns EXCEPT ![t] =
                  IF e.res.ok THEN Advance(t, Append(txns[t].results, e.res))
                  ELSE ToAbort(t)]
    /\ UNCHANGED <<obs, pool>>

\* execution phase, an update up to update_record's read of the latest
\* version of the first record
UpdateRead(t) ==
    /\ txns[t].pc = "exec"
    /\ txns[t].i <= Len(txns[t].queries)
    /\ Current(t).op = "update"
    /\ \E p \in {QueryUpdatePrologue(TheWorld, Current(t).k, Current(t).columns)} :
         IF ~p.ok
         THEN /\ SetWorld(p.w)
              /\ txns' = [txns EXCEPT ![t] = ToAbort(t)]
         ELSE \E rd \in {UpdateRecordRead(p.w.tb, Head(p.rids))} :
                IF ~rd.ok
                THEN /\ SetWorld(end_2pl(p.w))
                     /\ txns' = [txns EXCEPT ![t] = ToAbort(t)]
                ELSE /\ SetWorld([p.w EXCEPT !.tb = rd.tb])
                     /\ txns' = [txns EXCEPT ![t].pc = "write", ![t].rids = p.rids,
                                             ![t].rd = [f \in DOMAIN NoLocals |-> rd[f]]]
    /\ UNCHANGED <<obs, pool>>

\* execution phase, the rest of the update: the tail write, the base
\* record's INDIRECTION, the index, the remaining records, _end_2pl
UpdateWrite(t) ==
    /\ txns[t].pc = "write"
    /\ \E u \in {UpdateRecordWrite(table, Head(txns[t].rids), txns[t].rd,
                                    Current(t).columns)} :
       \E r \in {IF u.ok THEN UpdateEach(u.tb, Tail(txns[t].rids), Current(t).columns)
                 ELSE u} :
           /\ SetWorld(end_2pl([TheWorld EXCEPT !.tb = r.tb]))
           /\ txns' = [txns EXCEPT ![t] =
                  IF r.ok THEN Advance(t, Append(txns[t].results, Done(<<>>)))
                  ELSE ToAbort(t)]
    /\ UNCHANGED <<obs, pool>>

\* Transaction.commit
Commit(t) ==
    /\ txns[t].pc = "exec"
    /\ txns[t].i > Len(txns[t].queries)
    /\ SetWorld(TxCommit(TheWorld, t))
    /\ txns' = [txns EXCEPT ![t].pc = "committed"]
    /\ UNCHANGED <<obs, pool>>

\* Transaction.abort up to "Clear transaction context": the rollback on the
\* table and lock_manager.release_locks(self.transaction_id)
AbortRollback(t) ==
    /\ txns[t].pc = "abort"
    /\ table' = rollback_modifications(table)
    /\ lockTable' = release_locks(lockTable, t)
    /\ txns' = [txns EXCEPT ![t].pc = "clear"]
    /\ UNCHANGED <<acquired_locks, obs, pool>>

\* the rest of Transaction.abort with a run() that retries without counting
AbortRetryAlways(t) ==
    /\ txns[t].pc = "clear"
    /\ table' = ClearContext(table)
    /\ txns' = [txns EXCEPT ![t] = reset_for_retry(t)]
    /\ UNCHANGED <<lockTable, acquired_locks, obs, pool>>

\* the rest of Transaction.abort, which clears the transaction context, and
\* run()'s retry (_reset_for_retry) or giving up
Abort(t) ==
    /\ txns[t].pc = "clear"
    /\ table' = ClearContext(table)
    /\ txns' = [txns EXCEPT ![t] =
           IF txns[t].attempts < MaxAttempts
           THEN reset_for_retry(t)
           ELSE [txns[t] EXCEPT !.pc = "failed"]]
    /\ UNCHANGED <<lockTable, acquired_locks, obs, pool>>

\* Table.merge, called by the merge thread or by any caller
Merge ==
    /\ table' = merge(table)
    /\ UNCHANGED <<lockTable, acquired_locks, txns, obs, pool>>

Next ==
    \/ \E t \in Tids :
          \/ Begin(t)
          \/ Grow(t)
          \/ Exec(t)
          \/ UpdateRead(t)
          \/ UpdateWrite(t)
          \/ Commit(t)
          \/ AbortRollback(t)
          \/ Abort(t)
    \/ Merge

Spec == Init /\ [][Next]_vars

\* run() has returned
Finished(t) == txns[t].pc \in {"committed", "failed"}

\* Spec with every thread scheduled again and again.  A step of thread t
\* (Begin, Grow, Exec, UpdateRead, UpdateWrite, Commit, AbortRollback or
\* Abort of t) is
\* possible exactly when t has not finished, and the steps of t are the
\* steps that change txns[t]; so weak fairness of the steps of t,
\* WF_vars(steps of t), is: t finishes, or t takes a step again and again.
SpecFair ==
    Spec /\ \A t \in Tids :
                \/ []<>Finished(t)
                \/ []<><<txns'[t] # txns[t]>>_vars

---------------------------------------------------------------------------
(* Properties of concurrent transactions under Spec *)

AllFinished == \A t \in Tids : Finished(t)
Committed == {t \in Tids : txns[t].pc = "committed"}

\* the rows of the live records, by their latest version
Rows(tb) == {get_latest_version(tb, r).values : r \in LiveRids(tb)}

\* the orders in which the transactions of S can run one after the other
Orders(S) ==
    {o \in [1 .. Cardinality(S) -> S] : \A a, b \in DOMAIN o : a # b => o[a] # o[b]}

\* the transactions of `order` run one after the other from world w, each
\* in one attempt: [w, ok, results]; ok when every one of them commits
RECURSIVE Serial(_, _, _, _)
Serial(w, order, n, results) ==
    IF n > Len(order) THEN [w |-> w, ok |-> TRUE, results |-> results]
    ELSE Only({IF r.committed
               THEN Serial(r.w, order, n + 1, MapPut(results, order[n], r.results))
               ELSE [w |-> r.w, ok |-> FALSE, results |-> results]
               : r \in {run_with_locking(w, order[n], txns[order[n]].queries)}})

\* C1: serializability.  When every transaction has finished, the rows of
\* the table and the results of the committed transactions are those of a
\* serial execution, in some order, of exactly the committed transactions.
C1_Serializable ==
    AllFinished =>
        \E o \in Orders(Committed) :
            LET sr == Serial(InitWorld, o, 1, <<>>)
            IN  /\ sr.ok
                /\ Rows(sr.w.tb) = Rows(table)
                /\ \A t \in Committed : sr.results[t] = txns[t].results

\* the record and table locks transaction t holds
HeldBy(lk, t) ==
    {id \in DOMAIN lk : id[1] \in {"rid", "table"}
                        /\ (t \in lk[id].lock_holders \/ lk[id].exclusive_holder = t)}

\* transaction t is between its first grow step and its commit or abort
InFlight(pc) == pc \in {"grow", "exec", "write"}

\* C2: strict two-phase locking.  No step other than the transaction's own
\* commit or abort releases a record or table lock the transaction holds.
C2_StrictTwoPhase ==
    [][\A t \in Tids :
          (InFlight(txns[t].pc) /\ InFlight(txns'[t].pc))
              => HeldBy(lockTable, t) \subseteq HeldBy(lockTable', t)]_vars

\* the last update of key k among the first n queries, 0 if none
RECURSIVE LastUpdate(_, _, _)
LastUpdate(queries, k, n) ==
    IF n = 0 THEN 0
    ELSE IF queries[n].op = "update" /\ queries[n].k = k THEN n
    ELSE LastUpdate(queries, k, n - 1)

\* C9: read-your-write.  A select of key k that a transaction executes after
\* its own update of k, and that returns a record, returns in every column
\* the update set the value the update wrote.
C9_ReadYourWrite ==
    \A t \in Tids : \A j \in DOMAIN txns[t].results :
        LET q == txns[t].queries[j]
            u == LastUpdate(txns[t].queries, q.k, j - 1)
        IN  (q.op = "select" /\ q.col = key /\ u > 0 /\ txns[t].results[j].rows # <<>>)
                => \A c \in 1 .. num_columns :
                       txns[t].queries[u].columns[c] # None
                           => txns[t].results[j].rows[1].columns[c]
                                  = txns[t].queries[u].columns[c]

\* the value a transaction's last update of key k writes in the second
\* column, None if it has no such update
Written(t, k) ==
    LET u == LastUpdate(txns[t].queries, k, Len(txns[t].queries))
    IN  IF u = 0 THEN None ELSE txns[t].queries[u].columns[2]

\* the second column of the record select / select_version returns for key k
Selected(k, relative_version) ==
    LET r == QuerySelectVersion(TheWorld, k, key, AllColumns, relative_version).res
    IN  IF r.ok /\ r.rows # <<>> THEN r.rows[1].columns[2] ELSE None

\* C10: no lost update.  When two transactions that each updated the record
\* with key 1 have both committed and nothing else runs, select returns the
\* value one of them wrote and select_version(..., -1) the value the other
\* wrote.
C10_NoLostUpdate ==
    \A t1, t2 \in Tids :
        (/\ t1 < t2
         /\ AllFinished /\ {t1, t2} \subseteq Committed
         /\ Written(t1, 1) # None /\ Written(t2, 1) # None)
            => \/ Selected(1, 0) = Written(t1, 1) /\ Selected(1, -1) = Written(t2, 1)
               \/ Selected(1, 0) = Written(t2, 1) /\ Selected(1, -1) = Written(t1, 1)

C14_SchemaMonotonic ==
    [][(\A t \in Tids : ~(txns[t].pc = "abort" /\ txns'[t].pc # "abort"))
          => \A r \in BaseRids(table) \cap BaseRids(table') : \A i \in UserCols :
                BitSet(Col(ReadAt(table, table.page_directory[r]),
                           SCHEMA_ENCODING_COLUMN), i)
                    = Col(ReadAt(table, table.page_directory[r]), SCHEMA_ENCODING_COLUMN)
                => BitSet(Col(ReadAt(table', table'.page_directory[r]),
                              SCHEMA_ENCODING_COLUMN), i)
                    = Col(ReadAt(table', table'.page_directory[r]),
                          SCHEMA_ENCODING_COLUMN)]_vars

C16_TpsMonotonic ==
    [][\A i \in 1 .. Len(table.page_ranges) :
          /\ table'.page_ranges[i].tps >= table.page_ranges[i].tps
          /\ txns' # txns => table'.page_ranges[i].tps = table.page_ranges[i].tps]_vars

\* a merge pass is about to meet a dirty record whose INDIRECTION is below
\* the TPS an earlier pass has set on its page
C16_Witness ==
    \E r \in table.rids_to_merge \cap BaseRids(table) :
        /\ Col(ReadAt(table, table.page_directory[r]), INDIRECTION_COLUMN) > 0
        /\ Col(ReadAt(table, table.page_directory[r]), INDIRECTION_COLUMN)
              < table.page_ranges[table.page_directory[r].range_idx + 1].tps

\* C17: TPS upper bound.  In every reachable state the TPS of a base page is
\* at most the largest tail RID on the indirection chain of some base record
\* stored on that page (0 when no base record of the page has a tail).
C17_TpsUpperBound ==
    \A i \in 1 .. Len(table.page_ranges) :
        \/ table.page_ranges[i].tps = 0
        \/ \E r \in BaseRids(table) :
              /\ table.page_directory[r].range_idx = i - 1
              /\ \E j \in 1 .. Len(Chain(table, r)) :
                    table.page_ranges[i].tps <= Chain(table, r)[j]

C19_RangeLookup ==
    \A lo \in MoreKeys, hi \in MoreKeys :
        lo <= hi =>
            \A l \in {IndexLocateRange(table.indices[key], lo, hi)} :
                /\ l.end = "return"
                /\ l.rids = UNION {IndexEntries(table.indices[key])[v] :
                                      v \in {x \in DOMAIN table.indices[key].idx_map :
                                                lo <= x /\ x <= hi}}

---------------------------------------------------------------------------
(* SpecPool: two threads call fix_page and unfix_page on two pages of a    *)
(* pool of capacity PoolCapacity.                                           *)

InitPool ==
    /\ table = EmptyTable
    /\ lockTable = <<>>
    /\ acquired_locks = <<>>
    /\ txns = <<>>
    /\ obs = [op |-> "init", ok |-> TRUE]
    /\ pool = Bufferpool

\* Bufferpool.fix_page up to evict(): a page in frames is pinned, moved to
\* the end of the LRU order and returned; otherwise the thread goes on to
\* evict() when the pool is full, to the load when it is not
fix_page(t, page_id) ==
    /\ pool.threads[t].pc = "idle"
    /\ pool' =
         IF page_id \in DOMAIN pool.frames
         THEN [pool EXCEPT !.frames[page_id].pin = @ + 1,
                           !.lru = SelectSeq(@, LAMBDA x : x # page_id) \o <<page_id>>,
                           !.threads[t] = [pc |-> "fixed", page_id |-> page_id,
                                           victim_id |-> None]]
         ELSE [pool EXCEPT !.threads[t] =
                  [pc |-> IF Cardinality(DOMAIN pool.frames) >= PoolCapacity
                          THEN "evict" ELSE "load",
                   page_id |-> page_id, victim_id |-> None]]
    /\ UNCHANGED <<table, lockTable, acquired_locks, txns, obs>>

\* Bufferpool.evict, the scan: the first frame in LRU order with pin == 0
\* is the victim; with every frame pinned evict() returns
evict(t) ==
    /\ pool.threads[t].pc = "evict"
    /\ pool' =
         IF \E i \in 1 .. Len(pool.lru) : pool.frames[pool.lru[i]].pin = 0
         THEN [pool EXCEPT !.threads[t].pc = "remove",
                           !.threads[t].victim_id =
                               pool.lru[CHOOSE i \in 1 .. Len(pool.lru) :
                                          /\ pool.frames[pool.lru[i]].pin = 0
                                          /\ \A j \in 1 .. i - 1 :
                                                pool.frames[pool.lru[j]].pin # 0]]
         ELSE [pool EXCEPT !.threads[t].pc = "load"]
    /\ UNCHANGED <<table, lockTable, acquired_locks, txns, obs>>

\* Bufferpool.evict, the removal: the flush of a dirty frame, del frames[v],
\* del lru[v]; KeyError when another evict() has removed v, which ends
\* fix_page
EvictRemove(t) ==
    /\ pool.threads[t].pc = "remove"
    /\ pool' =
         IF pool.threads[t].victim_id \in DOMAIN pool.frames
         THEN [pool EXCEPT !.frames = MapRemove(@, pool.threads[t].victim_id),
                           !.lru = SelectSeq(@, LAMBDA x : x # pool.threads[t].victim_id),
                           !.threads[t].pc = "load",
                           !.threads[t].victim_id = None]
         ELSE [pool EXCEPT !.threads[t] = Bufferpool.threads[t]]
    /\ UNCHANGED <<table, lockTable, acquired_locks, txns, obs>>

\* Bufferpool.fix_page, the load: frames[page_id] = a new frame with pin 1,
\* lru[page_id] = True
LoadPage(t) ==
    /\ pool.threads[t].pc = "load"
    /\ pool' = [pool EXCEPT
                  !.frames = MapPut(@, pool.threads[t].page_id,
                                    [pin |-> 1, dirty |-> FALSE]),
                  !.lru = IF \E i \in 1 .. Len(@) : @[i] = pool.threads[t].page_id
                          THEN @ ELSE Append(@, pool.threads[t].page_id),
                  !.threads[t].pc = "fixed"]
    /\ UNCHANGED <<table, lockTable, acquired_locks, txns, obs>>

\* Bufferpool.unfix_page(page_id, dirty)
unfix_page(t, dirty) ==
    /\ pool.threads[t].pc = "fixed"
    /\ pool' =
         IF pool.threads[t].page_id \in DOMAIN pool.frames
         THEN [pool EXCEPT
                  !.frames[pool.threads[t].page_id] =
                      [pin |-> IF @.pin > 0 THEN @.pin - 1 ELSE @.pin,
                       dirty |-> @.dirty \/ dirty],
                  !.threads[t] = Bufferpool.threads[t]]
         ELSE [pool EXCEPT !.threads[t] = Bufferpool.threads[t]]
    /\ UNCHANGED <<table, lockTable, acquired_locks, txns, obs>>

NextPool ==
    \E t \in PoolThreads :
        \/ \E page_id \in PoolPages : fix_page(t, page_id)
        \/ evict(t)
        \/ EvictRemove(t)
        \/ LoadPage(t)
        \/ \E dirty \in BOOLEAN : unfix_page(t, dirty)

SpecPool == InitPool /\ [][NextPool]_vars

\* C20: a fixed page is never evicted.  In every interleaving of the
\* threads' fix_page, unfix_page and evict calls, a page that a thread has
\* fixed and not yet unfixed is in the pool's frames.
C20_FixedNeverEvicted ==
    \A t \in PoolThreads :
        pool.threads[t].pc = "fixed" => pool.threads[t].page_id \in DOMAIN pool.frames

---------------------------------------------------------------------------
(* Rollback, commit and the phases of an attempt *)

\* C21: rollback of an insert.  On every reachable table, when a transaction
\* inserts a record with a key k that no record has and the insert is rolled
\* back, the record is tombstoned, its RID is out of the page directory and
\* in no entry of any index, locate(key, k) does not contain it, and an
\* insert of key k made afterwards succeeds.
C21_RollbackInsert ==
    \A k \in KeyVals :
        \A i \in {TableInsert(SetContext(table, SeqTid), <<k, 10>>)} :
            i.rid # None =>
                \A rb \in {rollback_modifications(i.tb)} :
                    /\ Col(ReadAt(i.tb, i.tb.page_directory[i.rid]), RID_COLUMN) = i.rid
                    /\ Col(ReadAt(rb, i.tb.page_directory[i.rid]), RID_COLUMN) = DELETED_RID
                    /\ i.rid \notin DOMAIN rb.page_directory
                    /\ \A c \in UserCols : \A v \in DOMAIN rb.indices[c].idx_map :
                          i.rid \notin IndexEntries(rb.indices[c])[v]
                    /\ i.rid \notin locate(rb, key, k)
                    /\ TableInsert(rb, <<k, 10>>).rid # None

\* C22: rollback of an update.  On every reachable table, when a transaction
\* updates a live record r that each indexed column locates by its latest
\* value, and the update is rolled back, the base record's INDIRECTION and
\* SCHEMA_ENCODING are what they were before the update, and for every
\* indexed column the update changed from v_old to v_new, locate(c, v_old)
\* contains r and locate(c, v_new) does not; with or without earlier
\* committed updates of r.
C22_RollbackUpdate ==
    \A r \in LiveRids(table) : \A columns \in UpdateColumns :
        \A v_old \in {get_latest_version(table, r).values} :
            (\A c \in UserCols :
                table.indices[c].present => r \in locate(table, c, v_old[c + 1]))
            => \A u \in {update_record(SetContext(table, SeqTid), r, columns)} :
                 u.ok =>
                   \A rb \in {rollback_modifications(u.tb)} :
                      /\ Col(ReadAt(rb, table.page_directory[r]), INDIRECTION_COLUMN)
                           = Col(ReadAt(table, table.page_directory[r]), INDIRECTION_COLUMN)
                      /\ Col(ReadAt(rb, table.page_directory[r]), SCHEMA_ENCODING_COLUMN)
                           = Col(ReadAt(table, table.page_directory[r]),
                                 SCHEMA_ENCODING_COLUMN)
                      /\ \A c \in UserCols :
                            (/\ table.indices[c].present
                             /\ columns[c + 1] # None
                             /\ columns[c + 1] # v_old[c + 1])
                            => /\ r \in locate(rb, c, v_old[c + 1])
                               /\ r \notin locate(rb, c, columns[c + 1])

\* C23: rollback of a delete.  On every reachable table, when a transaction
\* deletes a live record r that each indexed column locates by its latest
\* value, and the delete is rolled back, the RID column of r holds r again,
\* r is readable, and every indexed column locates r by r's latest value in
\* it; also when r was updated before the delete.
C23_RollbackDelete ==
    \A r \in LiveRids(table) :
        \A v \in {get_latest_version(table, r).values} :
            (\A c \in UserCols :
                table.indices[c].present => r \in locate(table, c, v[c + 1]))
            => \A d \in {delete_record(SetContext(table, SeqTid), r)} :
                 d.ok =>
                   \A rb \in {rollback_modifications(d.tb)} :
                      /\ read_record(d.tb, r) = NoRecord
                      /\ Col(ReadAt(rb, table.page_directory[r]), RID_COLUMN) = r
                      /\ read_record(rb, r) # NoRecord
                      /\ \A c \in UserCols :
                            table.indices[c].present => r \in locate(rb, c, v[c + 1])

---------------------------------------------------------------------------
(* SpecMix: one thread runs transactions of one or two queries on key 1,  *)
(* each either with the database's lock manager (db.create_transaction())  *)
(* or with none (Transaction() on a table whose lock_manager is None:      *)
(* _run_without_locking).                                                  *)

\* Transaction.abort of a transaction without lock manager
AbortWithoutLocking(w) ==
    [w EXCEPT !.tb = ClearContext(rollback_modifications(w.tb))]

\* Transaction.commit of a transaction without lock manager
CommitWithoutLocking(w, transaction_id) ==
    [w EXCEPT !.tb = [ClearContext(w.tb) EXCEPT !.transaction_modifications =
                        JournalFilter(@, transaction_id, FALSE)]]

\* Transaction._run_without_locking: [w, committed, results]
run_without_locking(w, transaction_id, queries) ==
    Only({IF ~e.ok
          THEN [w |-> AbortWithoutLocking(e.w), committed |-> FALSE, results |-> e.results]
          ELSE [w |-> CommitWithoutLocking(e.w, transaction_id), committed |-> TRUE,
                results |-> e.results]
          : e \in {ExecAll(w, queries, <<>>)}})

\* the queries of these transactions: on key 1, and a delete of key 3, which
\* no record has and which therefore returns False
MixQueries ==
    {Insert(<<1, 10>>), Update(1, <<None, 20>>), Delete(1), Delete(3)}

\* a transaction is one query or two
MixPrograms ==
    {<<q>> : q \in MixQueries}
    \cup {<<q1, q2>> : q1 \in MixQueries, q2 \in MixQueries}

MixMaxRid == 2       \* no transaction starts once MixMaxRid RIDs are allocated,
                     \* nor once an index holds more than MaxNodes nodes

\* Transaction.run(auto_retry=False)
MixRun ==
    /\ SeqInBounds
    /\ table.next_rid <= MixMaxRid
    /\ \E program \in MixPrograms, locking \in BOOLEAN :
         \E r \in {IF locking THEN run_with_locking(TheWorld, SeqTid, program)
                   ELSE run_without_locking(TheWorld, SeqTid, program)} :
             /\ SetWorld(r.w)
             /\ obs' = [op |-> IF locking THEN "run" ELSE "run_without_locking",
                        ok |-> r.committed]
    /\ UNCHANGED <<txns, pool>>

SpecMix == InitSeq /\ [][MixRun]_vars

\* C24: commit discards the journal.  A transaction that commits, with or
\* without a lock manager, leaves in the table's rollback journal none of
\* the entries its queries recorded: the journal after the commit is no
\* longer than it was before the transaction.
C24_CommitDiscardsJournal ==
    [][obs'.ok => Len(table'.transaction_modifications)
                     <= Len(table.transaction_modifications)]_vars

---------------------------------------------------------------------------
(* Properties of the journal and of the phases under Spec *)

\* C25: an aborting transaction undoes only its own modifications.  With
\* concurrent transactions on one table, every journal entry a query of
\* transaction t records carries t's id, and the abort of t takes out of the
\* journal, and rolls back, exactly the entries that carry t's id, none of
\* another in-flight or committed transaction.
C25_OwnModifications ==
    [][\A t \in Tids :
          /\ (txns[t].pc = "exec" /\ txns'[t] # txns[t] /\ txns'[t].pc # "committed")
                => /\ Len(table'.transaction_modifications)
                        >= Len(table.transaction_modifications)
                   /\ \A i \in Len(table.transaction_modifications) + 1
                                .. Len(table'.transaction_modifications) :
                         table'.transaction_modifications[i].transaction_id = t
          /\ (txns[t].pc = "abort" /\ txns'[t].pc # "abort")
                => table'.transaction_modifications
                      = JournalFilter(table.transaction_modifications, t, FALSE)]_vars

\* C26: grow before execute.  A transaction run with locking executes a
\* query only when the locks of all of its queries have been acquired (they
\* are in its acquired_locks); an attempt whose lock acquisition fails goes
\* to its abort without having executed a query; and when abort() has
\* returned, the transaction's id holds no lock in the lock manager.
C26_GrowBeforeExecute ==
    [][\A t \in Tids :
          /\ (txns[t].pc = "exec" /\ txns[t].i <= Len(txns[t].queries)
                /\ txns'[t] # txns[t])
                => \A j \in DOMAIN txns[t].queries :
                      \A id \in {RecordsForQuery(table, txns[t].queries[j])[n] :
                                   n \in DOMAIN RecordsForQuery(table, txns[t].queries[j])} :
                         <<id, LockTypeForQuery(txns[t].queries[j])>>
                             \in txns[t].acquired_locks
          /\ (txns[t].pc = "grow" /\ txns'[t].pc # "grow" /\ txns'[t].pc # "exec")
                => /\ txns'[t].pc = "abort"
                   /\ txns'[t].results = <<>>
                   /\ table' = table
          /\ (txns[t].pc = "clear" /\ txns'[t].pc # "clear")
                => \A id \in DOMAIN lockTable' : t \notin Holders(lockTable', id)]_vars

\* C30: retry reset.  Whenever a transaction goes from an aborted attempt
\* to its next attempt, it starts that attempt with a transaction id other
\* than the aborted attempt's, with an empty set of acquired locks, and with
\* the queries it had.
C30_RetryReset ==
    [][\A t \in Tids :
          (txns[t].pc = "clear" /\ txns'[t].pc = "start") =>
             /\ txns'[t].transaction_id # txns[t].transaction_id
             /\ txns'[t].acquired_locks = {}
             /\ txns'[t].queries = txns[t].queries]_vars

\* C31: no lock outlives the workload.  Once every transaction has
\* committed or given up, no lock id of the lock manager has a shared or an
\* exclusive holder.
C31_NoLockLeft ==
    AllFinished => \A id \in DOMAIN lockTable : Holders(lockTable, id) = {}

\* the walk along INDIRECTION from RID rid, reached from RID from (None at
\* the base record): every RID met is in the page directory as a tail
\* record and is smaller than the one before it, and the walk reaches 0
RECURSIVE IndirectionWalk(_, _, _, _)
IndirectionWalk(tb, rid, from, fuel) ==
    IF rid = 0 THEN TRUE
    ELSE /\ fuel > 0
         /\ rid \in DOMAIN tb.page_directory
         /\ tb.page_directory[rid].is_tail
         /\ from # None => rid < from
         /\ IndirectionWalk(tb, Col(ReadAt(tb, tb.page_directory[rid]), INDIRECTION_COLUMN),
                            rid, fuel - 1)

\* C35: indirection chains are well formed.  In every state reached by the
\* threads' updates, the merges and the rollbacks, following INDIRECTION
\* from any base record meets only tail records of the page directory,
\* each with a smaller RID than the one before, and reaches 0.
C35_IndirectionChain ==
    \A r \in BaseRids(table) :
        IndirectionWalk(table,
                        Col(ReadAt(table, table.page_directory[r]), INDIRECTION_COLUMN),
                        None, table.next_rid)

\* a record has two tails on its chain, the page directory holds a tail
\* that is on no chain (unlinked by a rollback or by a concurrent update), a
\* merge has moved the TPS, and a transaction has aborted and is retrying
C35_Witness ==
    /\ \E r \in BaseRids(table) : Len(Chain(table, r)) >= 2
    /\ \E x \in DOMAIN table.page_directory :
          /\ table.page_directory[x].is_tail
          /\ \A r \in BaseRids(table) :
                \A i \in DOMAIN Chain(table, r) : Chain(table, r)[i] # x
    /\ \E i \in DOMAIN table.page_ranges : table.page_ranges[i].tps > 0
    /\ \E t \in Tids : txns[t].attempts > 1

---------------------------------------------------------------------------
(* The execution loop under SpecMix *)

\* the world after the first n queries have been invoked one after the
\* other, and what the n-th of them returned
RECURSIVE Invoked(_, _, _)
Invoked(w, queries, n) ==
    IF n = 0 THEN w ELSE ExecQuery(Invoked(w, queries, n - 1), queries[n]).w

Returned(w, queries, n) == ExecQuery(Invoked(w, queries, n - 1), queries[n]).res

\* the first query that returns False, Len(queries) + 1 if none does
FirstFalse(w, queries) ==
    IF \A n \in DOMAIN queries : Returned(w, queries, n).ok THEN Len(queries) + 1
    ELSE CHOOSE n \in DOMAIN queries :
            /\ ~Returned(w, queries, n).ok
            /\ \A m \in 1 .. n - 1 : Returned(w, queries, m).ok

\* C27: in-order execution with abort on first failure.  On every reachable
\* table, one attempt of a transaction, with or without locking, invokes its
\* queries in the order added, up to and including the first that returns
\* False; it then aborts without invoking a later query; and it commits when,
\* and only when, every query returned a result other than False.
C27_InOrderExecution ==
    \A program \in MixPrograms :
        /\ \A r \in {run_without_locking(TheWorld, SeqTid, program)} :
           \A f \in {FirstFalse(TheWorld, program)} :
              /\ r.committed = (f > Len(program))
              /\ r.results = [n \in 1 .. f - 1 |-> Returned(TheWorld, program, n)]
              /\ r.w = IF f > Len(program)
                       THEN CommitWithoutLocking(Invoked(TheWorld, program, Len(program)),
                                                 SeqTid)
                       ELSE AbortWithoutLocking(Invoked(TheWorld, program, f))
        /\ \A g \in {GrowAll([TheWorld EXCEPT !.tb = SetContext(@, SeqTid)],
                             SeqTid, program)} :
              g.ok =>
                \A r \in {run_with_locking(TheWorld, SeqTid, program)} :
                \A f \in {FirstFalse(g.w, program)} :
                   /\ r.committed = (f > Len(program))
                   /\ r.results = [n \in 1 .. f - 1 |-> Returned(g.w, program, n)]
                   /\ r.w = IF f > Len(program)
                            THEN TxCommit(Invoked(g.w, program, Len(program)), SeqTid)
                            ELSE TxAbort(Invoked(g.w, program, f), SeqTid)

\* a transaction has aborted, and on the table it left a two-query
\* transaction fails at its first query while its second query, invoked
\* alone, would succeed
C27_Witness ==
    /\ ~obs.ok
    /\ \E program \in MixPrograms :
          /\ Len(program) = 2
          /\ FirstFalse(TheWorld, program) = 1
          /\ ExecQuery(TheWorld, program[2]).res.ok
          /\ ExecQuery(TheWorld, program[2]).w.tb # table

---------------------------------------------------------------------------
(* SpecSum: one thread runs transactions of one query: an insert, update   *)
(* or delete of a record whose value is 0 or 10, or a sum over a key       *)
(* range, with the database's lock manager or with none.                   *)

SumVals == {0, 10}

SumModifications ==
    {Insert(<<k, v>>) : k \in KeyVals, v \in SumVals}
    \cup {Update(k, <<None, v>>) : k \in KeyVals, v \in SumVals}
    \cup {Delete(k) : k \in KeyVals}

\* Python's `result == False` for what Query.sum returns, False or an int:
\* False == False, and 0 == False since bool is a subtype of int
EqFalse(result) == ~result.ok \/ result.total = 0

\* Transaction._get_records_for_query and _acquire_locks_for_query for a
\* sum: shared locks on the RIDs of the range; [lk, ok, acquired].  A
\* locate_range that does not return ends the attempt without a commit.
acquire_locks_for_sum(w, transaction_id, start_range, end_range) ==
    Only({IF l.end # "return" THEN [lk |-> w.lk, ok |-> FALSE, acquired |-> {}]
          ELSE AcquireAll(w.lk, transaction_id,
                          [i \in 1 .. Cardinality(l.rids) |-> RidLock(SetToSeq(l.rids)[i])],
                          SHARED)
          : l \in {IndexLocateRange(w.tb.indices[key], start_range, end_range)}})

\* Transaction.run(auto_retry=False) of a transaction whose one query is
\* sum(start_range, end_range, aggregate_column_index):
\* [w, committed, result]
run_sum(w0, transaction_id, locking, start_range, end_range, aggregate_column_index) ==
    IF locking
    THEN Only({IF ~a.ok
               THEN [w |-> TxAbort([w EXCEPT !.lk = a.lk], transaction_id),
                     committed |-> FALSE, result |-> [ok |-> FALSE, total |-> 0]]
               ELSE Only({[w |-> IF EqFalse(s) THEN TxAbort(s.w, transaction_id)
                                 ELSE TxCommit(s.w, transaction_id),
                           committed |-> ~EqFalse(s),
                           result |-> [ok |-> s.ok, total |-> s.total]]
                          : s \in {QuerySum([w EXCEPT !.lk = a.lk], start_range, end_range,
                                            aggregate_column_index)}})
               : w \in {[w0 EXCEPT !.tb = SetContext(@, transaction_id)]},
                 a \in {acquire_locks_for_sum([w0 EXCEPT !.tb = SetContext(@, transaction_id)],
                                              transaction_id, start_range, end_range)}})
    ELSE Only({[w |-> IF EqFalse(s) THEN AbortWithoutLocking(s.w)
                      ELSE CommitWithoutLocking(s.w, transaction_id),
                committed |-> ~EqFalse(s),
                result |-> [ok |-> s.ok, total |-> s.total]]
               : s \in {QuerySum(w0, start_range, end_range, aggregate_column_index)}})

SumModify ==
    /\ SeqInBounds
    /\ \E q \in SumModifications :
         \E r \in {run_with_locking(TheWorld, SeqTid, <<q>>)} :
             /\ SetWorld(r.w)
             /\ obs' = [op |-> "run", ok |-> r.committed]
    /\ UNCHANGED <<txns, pool>>

SumRun ==
    /\ \E start_range \in KeyVals, end_range \in KeyVals, locking \in BOOLEAN :
         \E r \in {run_sum(TheWorld, SeqTid, locking, start_range, end_range, 1)} :
             /\ SetWorld(r.w)
             /\ obs' = [op |-> "sum", ok |-> r.committed]
    /\ UNCHANGED <<txns, pool>>

NextSum == SumModify \/ SumRun

SpecSum == InitSeq /\ [][NextSum]_vars

\* the live records whose primary key lies in [start_range, end_range]
LiveInRange(tb, start_range, end_range) ==
    {r \in LiveRids(tb) : /\ get_latest_version(tb, r).values[key + 1] >= start_range
                          /\ get_latest_version(tb, r).values[key + 1] <= end_range}

\* C28: a sum of 0 over live rows is a result, not a failure.  On every
\* reachable table and for every key range that holds live records whose
\* values in the aggregated column are all 0, Query.sum returns the number 0
\* and not False, and a transaction whose one query is that sum commits,
\* with or without locking.
C28_ZeroSumIsValid ==
    \A start_range \in KeyVals, end_range \in KeyVals, locking \in BOOLEAN :
        (/\ LiveInRange(table, start_range, end_range) # {}
         /\ \A r \in LiveInRange(table, start_range, end_range) :
                get_latest_version(table, r).values[2] = 0
         /\ IndexLocateRange(table.indices[key], start_range, end_range).end = "return")
        => \A r \in {run_sum(TheWorld, SeqTid, locking, start_range, end_range, 1)} :
              /\ r.result.ok
              /\ r.result.total = 0
              /\ r.committed

---------------------------------------------------------------------------
(* Upgrade and reentrancy of a lock under SpecLock *)

\* C29: upgrade and reentrancy.  For every lock of the lock manager and
\* every transaction id tx: an exclusive request by a shared holder tx is
\* granted exactly when tx is the only shared holder and there is no
\* exclusive holder, and then tx is the exclusive holder and the shared set
\* is empty; a refused upgrade leaves every lock as it was; a request of
\* either type by the exclusive holder, and a shared request by a shared
\* holder, are granted and leave every lock as it was.
C29_UpgradeAndReentrancy ==
    \A id \in DOMAIN lockTable, tx \in 1 .. MaxTid :
        /\ tx \in lockTable[id].lock_holders =>
             /\ \A r \in {acquire_lock(lockTable, tx, id, EXCLUSIVE)} :
                  /\ r.ok = (/\ lockTable[id].lock_holders = {tx}
                             /\ lockTable[id].exclusive_holder = None)
                  /\ r.ok => r.lk = [lockTable EXCEPT
                                        ![id] = [lock_holders |-> {},
                                                 exclusive_holder |-> tx]]
                  /\ ~r.ok => r.lk = lockTable
             /\ \A r \in {acquire_lock(lockTable, tx, id, SHARED)} :
                  r.ok /\ r.lk = lockTable
        /\ tx = lockTable[id].exclusive_holder =>
             \A lock_type \in {SHARED, EXCLUSIVE} :
                \A r \in {acquire_lock(lockTable, tx, id, lock_type)} :
                   r.ok /\ r.lk = lockTable

\* a request was granted, and the lock manager holds a lock whose only
\* shared holder can upgrade, a lock shared by two transactions of which
\* neither can, and a lock held exclusively
C29_Witness ==
    /\ obs.op = "acquire" /\ obs.ok
    /\ \E id \in DOMAIN lockTable, tx \in 1 .. MaxTid :
          /\ lockTable[id].lock_holders = {tx}
          /\ acquire_lock(lockTable, tx, id, EXCLUSIVE).ok
    /\ \E id \in DOMAIN lockTable, tx \in 1 .. MaxTid :
          /\ tx \in lockTable[id].lock_holders
          /\ Cardinality(lockTable[id].lock_holders) = 2
          /\ ~acquire_lock(lockTable, tx, id, EXCLUSIVE).ok
    /\ \E id \in DOMAIN lockTable :
          /\ lockTable[id].exclusive_holder # None
          /\ acquire_lock(lockTable, lockTable[id].exclusive_holder, id, SHARED).ok

---------------------------------------------------------------------------
(* SpecDup: the threads of Spec, given transactions that insert a record   *)
(* with key 2 or change the key of record 1 to 2.                          *)

DupPrograms ==
    { <<Insert(<<2, 10>>)>>,
      <<Update(1, <<2, None>>)>>,
      <<Select(1, key), Insert(<<2, 10>>)>> }

InitDup ==
    /\ table = InitWorld.tb
    /\ lockTable = InitWorld.lk
    /\ acquired_locks = InitWorld.acq
    /\ \E programs \in [Tids -> DupPrograms] :
          txns = [t \in Tids |-> NewTxn(t, programs[t])]
    /\ obs = [op |-> "init", ok |-> TRUE]
    /\ pool = Bufferpool

SpecDup == InitDup /\ [][Next]_vars

\* C32: primary-key uniqueness under concurrency.  In every state reached
\* by two threads running transactions that insert and change keys, no two
\* live base records have the same latest primary key, and the key index
\* gives at most one RID for a key.
C32_KeyUniqueness ==
    /\ \A r1, r2 \in LiveRids(table) :
          get_latest_version(table, r1).values[key + 1]
              = get_latest_version(table, r2).values[key + 1] => r1 = r2
    /\ \A k \in KeyVals : Cardinality(locate(table, key, k)) <= 1

---------------------------------------------------------------------------
(* SpecIndex: the Index of the key column alone, called as a table calls   *)
(* it: insert(column, value, rid) for a RID the column does not hold,      *)
(* delete(column, value, rid) and update(column, old_value, new_value,     *)
(* rid) for a RID the column holds under that value.  The index is         *)
(* table.indices[key]; a call that raises leaves what it had assigned.     *)

IndexVals == 1 .. 3      \* the values of the column
IndexRids == 1 .. 3      \* the RIDs of the records

TheIndex == table.indices[key]

\* the RIDs the column holds
Indexed(ix) == UNION {IndexLocate(ix, v) : v \in IndexVals}

IndexInBounds == Len(TheIndex.nodes) <= MaxNodes

IndexInsertCall ==
    /\ IndexInBounds
    /\ \E value \in IndexVals, rid \in IndexRids \ Indexed(TheIndex) :
         \E r \in {IndexInsert(TheIndex, value, rid)} :
             /\ table' = [table EXCEPT !.indices[key] = r.ix]
             /\ obs' = [op |-> "index_insert", ok |-> r.ok]
    /\ UNCHANGED <<lockTable, acquired_locks, txns, pool>>

IndexDeleteCall ==
    /\ IndexInBounds
    /\ \E value \in IndexVals :
         \E rid \in IndexLocate(TheIndex, value) :
             /\ table' = [table EXCEPT !.indices[key] = IndexDelete(TheIndex, value, rid)]
             /\ obs' = [op |-> "index_delete", ok |-> TRUE]
    /\ UNCHANGED <<lockTable, acquired_locks, txns, pool>>

IndexUpdateCall ==
    /\ IndexInBounds
    /\ \E old_value \in IndexVals, new_value \in IndexVals :
         \E rid \in IndexLocate(TheIndex, old_value) :
         \E r \in {IndexUpdate(TheIndex, old_value, new_value, rid)} :
             /\ table' = [table EXCEPT !.indices[key] = r.ix]
             /\ obs' = [op |-> "index_update", ok |-> r.ok]
    /\ UNCHANGED <<lockTable, acquired_locks, txns, pool>>

NextIndex == IndexInsertCall \/ IndexDeleteCall \/ IndexUpdateCall

SpecIndex == InitSeq /\ [][NextIndex]_vars

\* the nodes met from node n following next, up to the end of the list or
\* to the first node met twice
RECURSIVE IndexChain(_, _, _)
IndexChain(ix, n, chain) ==
    IF n = 0 \/ \E i \in DOMAIN chain : chain[i] = n THEN chain
    ELSE IndexChain(ix, ix.nodes[n].next, Append(chain, n))

\* C33: the index chain.  After any sequence of insert, delete and update
\* calls, the nodes met from head following next are the nodes of the live
\* keys, one each, in strictly increasing order of value; the last one is
\* tail and has no next; each node's prev is the node before it; no node
\* is its own next or prev.
C33_IndexChain ==
    \A chain \in {IndexChain(TheIndex, TheIndex.head, <<>>)} :
        /\ \A i \in DOMAIN chain :
              /\ TheIndex.nodes[chain[i]].value \in DOMAIN TheIndex.idx_map
              /\ TheIndex.idx_map[TheIndex.nodes[chain[i]].value] = chain[i]
              /\ TheIndex.nodes[chain[i]].next # chain[i]
              /\ TheIndex.nodes[chain[i]].prev # chain[i]
              /\ TheIndex.nodes[chain[i]].prev = IF i = 1 THEN 0 ELSE chain[i - 1]
              /\ i < Len(chain) =>
                    TheIndex.nodes[chain[i]].value < TheIndex.nodes[chain[i + 1]].value
        /\ \A v \in DOMAIN TheIndex.idx_map :
              \E i \in DOMAIN chain : chain[i] = TheIndex.idx_map[v]
        /\ TheIndex.tail = IF chain = <<>> THEN 0 ELSE chain[Len(chain)]
        /\ chain # <<>> => TheIndex.nodes[chain[Len(chain)]].next = 0

\* C34: locate_range terminates.  After any sequence of insert, delete and
\* update calls, for every lo and hi the walk of locate_range along the
\* list comes to its end.
C34_RangeWalkEnds ==
    \A lo \in IndexVals, hi \in IndexVals :
        IndexLocateRange(TheIndex, lo, hi).end # "loop"

---------------------------------------------------------------------------
(* SpecMerge: the background merge thread and the threads that call        *)
(* Table.update_record, on a table with two records in one page range.     *)
(* txns[MergeThread] is the merge thread: its position in                  *)
(* _merge_thread_worker / merge / __merge and the locals of __merge;       *)
(* txns[u] for u in Updaters is a caller: its position in update_record    *)
(* and the locals of the call.  A step is the code between two points      *)
(* where the thread takes or gives up a page range's lock for longer than  *)
(* one PageRange method; the lock of a page range is held by the thread    *)
(* whose position lies inside such a section.                              *)
(*   merge thread: "idle"  _merge_thread_worker, between two checks        *)
(*                 "copy"  __merge, before the dirty set is copied         *)
(*                 "try"   before lock.acquire(blocking=False) of a range  *)
(*                 "check" lock held, before the checks of a RID           *)
(*                 "latest" lock released, before get_latest_version       *)
(*                 "tps"   lock held again, before the TPS update          *)
(*                 "reset" __merge returned, before updates_since_merge = 0*)
(*   updater:      "call"  before update_record, "tail" before the tail    *)
(*                 write, "lock" before `with base_pr.lock`, "base" inside *)
(*                 it, "dirty" before the index and dirty-set update,      *)
(*                 "count" before the counter                              *)

MergeThread == 0
Updaters == {1, 2}
MergeThreshold == 2   \* MERGE_THRESHOLD_UPDATES
MergeMaxRid == 5      \* the last RID an update may take: three update_record calls

\* the table the threads start on: keys 1 and 2 inserted
MergeTable == TableInsert(TableInsert(EmptyTable, <<1, 10>>).tb, <<2, 10>>).tb

\* the table after key 1 was inserted and a transaction that inserted key 3
\* and updated it was rolled back: the rolled-back RID is in the dirty set
\* and no longer in the page directory
MergeTableRolledBack ==
    Only({[rollback_modifications(
                update_record(i.tb, i.rid, <<None, 20>>).tb)
             EXCEPT !.transaction_id = None]
          : i \in {TableInsert([TableInsert(EmptyTable, <<1, 10>>).tb
                                  EXCEPT !.transaction_id = 1], <<3, 10>>)}})

MergeColumns == <<None, 20>>

NewMerger ==
    [pc |-> "idle", rids_to_merge |-> {}, ranges |-> <<>>, rids_by_range |-> <<>>,
     r |-> 1, j |-> 1, tail_rid |-> 0, processed |-> {}, returned |-> {}]

NewUpdater == [pc |-> "call", rid |-> None, rd |-> NoLocals]

InitMerge ==
    /\ table \in {MergeTable, MergeTableRolledBack}
    /\ lockTable = <<>>
    /\ acquired_locks = <<>>
    /\ txns = [t \in Updaters \cup {MergeThread} |->
                 IF t = MergeThread THEN NewMerger ELSE NewUpdater]
    /\ obs = [op |-> "init", ok |-> TRUE]
    /\ pool = Bufferpool

Merger == txns[MergeThread]

\* the page range the merge thread works on, and the RID it is at
MergerRange == Merger.ranges[Merger.r]
MergerRid == Merger.rids_by_range[Merger.r][Merger.j]

\* the threads holding the lock of page range range_idx
RangeLockHolders(range_idx) ==
    {u \in Updaters : /\ txns[u].pc = "base"
                      /\ table.page_directory[txns[u].rid].range_idx = range_idx}
    \cup {t \in {MergeThread} : /\ Merger.pc \in {"check", "tps"}
                                /\ MergerRange = range_idx}

\* __merge, "Group RIDs by their page range": the ranges in the order met,
\* and for each its RIDs; a RID that is not in the page directory or is a
\* tail RID is left out
RECURSIVE GroupByRange(_, _, _, _)
GroupByRange(tb, rids, ranges, by_range) ==
    IF rids = <<>> THEN [ranges |-> ranges, rids_by_range |-> by_range]
    ELSE IF Head(rids) \notin DOMAIN tb.page_directory
            \/ tb.page_directory[Head(rids)].is_tail
    THEN GroupByRange(tb, Tail(rids), ranges, by_range)
    ELSE LET range_idx == tb.page_directory[Head(rids)].range_idx
         IN  IF \E i \in DOMAIN ranges : ranges[i] = range_idx
             THEN GroupByRange(tb, Tail(rids), ranges,
                      [i \in DOMAIN by_range |->
                          IF ranges[i] = range_idx THEN Append(by_range[i], Head(rids))
                          ELSE by_range[i]])
             ELSE GroupByRange(tb, Tail(rids), Append(ranges, range_idx),
                               Append(by_range, <<Head(rids)>>))

\* _merge_thread_worker: should_merge
MergeWake ==
    /\ Merger.pc = "idle"
    /\ table.updates_since_merge >= MergeThreshold
    /\ txns' = [txns EXCEPT ![MergeThread] = [NewMerger EXCEPT !.pc = "copy"]]
    /\ UNCHANGED <<table, lockTable, acquired_locks, obs, pool>>

\* __merge: the dirty set is copied and cleared, the RIDs are grouped
MergeCopy ==
    /\ Merger.pc = "copy"
    /\ table' = [table EXCEPT !.rids_to_merge = {}]
    /\ \E g \in {GroupByRange(table, SetToSeq(table.rids_to_merge), <<>>, <<>>)} :
         txns' = [txns EXCEPT ![MergeThread] =
                    [Merger EXCEPT !.rids_to_merge = table.rids_to_merge,
                                   !.ranges = g.ranges,
                                   !.rids_by_range = g.rids_by_range,
                                   !.r = 1, !.j = 1,
                                   !.pc = IF g.ranges = <<>> THEN "reset" ELSE "try"]]
    /\ UNCHANGED <<lockTable, acquired_locks, obs, pool>>

\* a merge thread that leaves a page range after the first RID it handled
MergerNextLeavesRange(m) ==
    IF m.r < Len(m.ranges) THEN [m EXCEPT !.r = @ + 1, !.j = 1, !.pc = "try"]
    ELSE [m EXCEPT !.pc = "reset"]

\* the merge thread after the RID at j, with the lock held: the next RID of
\* the range, or the lock is released and the next range tried
MergerNext(m) ==
    IF m.j < Len(m.rids_by_range[m.r]) THEN [m EXCEPT !.j = @ + 1, !.pc = "check"]
    ELSE IF m.r < Len(m.ranges) THEN [m EXCEPT !.r = @ + 1, !.j = 1, !.pc = "try"]
    ELSE [m EXCEPT !.pc = "reset"]

\* page_range.lock.acquire(blocking=False); on failure the range's RIDs go
\* back to the dirty set
MergeTryLock ==
    /\ Merger.pc = "try"
    /\ IF RangeLockHolders(MergerRange) # {}
       THEN /\ table' = [table EXCEPT !.rids_to_merge =
                            @ \cup {Merger.rids_by_range[Merger.r][i] :
                                      i \in DOMAIN Merger.rids_by_range[Merger.r]}]
            /\ txns' = [txns EXCEPT ![MergeThread] =
                          [(IF Merger.r < Len(Merger.ranges)
                            THEN [Merger EXCEPT !.r = @ + 1, !.j = 1]
                            ELSE [Merger EXCEPT !.pc = "reset"])
                           EXCEPT !.returned =
                              @ \cup {Merger.rids_by_range[Merger.r][i] :
                                        i \in DOMAIN Merger.rids_by_range[Merger.r]}]]
       ELSE /\ table' = table
            /\ txns' = [txns EXCEPT ![MergeThread] = [Merger EXCEPT !.j = 1, !.pc = "check"]]
    /\ UNCHANGED <<lockTable, acquired_locks, obs, pool>>

\* one RID under the lock: the base record read in place, the checks for a
\* deleted record, an empty chain and the TPS; then the lock is released
MergeCheck ==
    /\ Merger.pc = "check"
    /\ LET loc == table.page_directory[MergerRid]
           base_record == table.page_ranges[loc.range_idx + 1].base[loc.offset + 1]
           tail_rid == Col(base_record, INDIRECTION_COLUMN)
       IN  txns' = [txns EXCEPT ![MergeThread] =
                      IF \/ Col(base_record, RID_COLUMN) = DELETED_RID
                         \/ tail_rid = 0
                         \/ tail_rid <= table.page_ranges[loc.range_idx + 1].tps
                      THEN MergerNext([Merger EXCEPT !.processed = @ \cup {MergerRid}])
                      ELSE [Merger EXCEPT !.tail_rid = tail_rid, !.pc = "latest"]]
    /\ UNCHANGED <<table, lockTable, acquired_locks, obs, pool>>

\* get_latest_version(rid), whose read_record takes the range's lock, and
\* page_range.lock.acquire()
MergeLatest ==
    /\ Merger.pc = "latest"
    /\ RangeLockHolders(MergerRange) = {}
    /\ txns' = [txns EXCEPT ![MergeThread] =
                  IF get_latest_version(table, MergerRid).values = NoValues
                  THEN MergerNext([Merger EXCEPT !.processed = @ \cup {MergerRid}])
                  ELSE [Merger EXCEPT !.pc = "tps"]]
    /\ UNCHANGED <<table, lockTable, acquired_locks, obs, pool>>

\* "Update TPS": set_tps(tail_rid) when tail_rid is above the page's TPS
MergeTps ==
    /\ Merger.pc = "tps"
    /\ table' = [table EXCEPT !.page_ranges[MergerRange + 1].tps =
                    IF Merger.tail_rid > @ THEN Merger.tail_rid ELSE @]
    /\ txns' = [txns EXCEPT ![MergeThread] =
                  MergerNext([Merger EXCEPT !.processed = @ \cup {MergerRid}])]
    /\ UNCHANGED <<lockTable, acquired_locks, obs, pool>>

\* Table.merge after __merge: updates_since_merge = 0
MergeReset ==
    /\ Merger.pc = "reset"
    /\ table' = [table EXCEPT !.updates_since_merge = 0]
    /\ txns' = [txns EXCEPT ![MergeThread].pc = "idle"]
    /\ UNCHANGED <<lockTable, acquired_locks, obs, pool>>

\* update_record up to the allocation of the tail RID
UpdaterCall(u) ==
    /\ txns[u].pc = "call"
    /\ table.next_rid <= MergeMaxRid
    /\ \E rid \in BaseRids(table) :
       \E rd \in {UpdateRecordRead(table, rid)} :
           /\ rd.ok
           /\ table' = rd.tb
           /\ txns' = [txns EXCEPT ![u] =
                  [pc |-> "tail", rid |-> rid,
                   rd |-> [f \in DOMAIN NoLocals |-> rd[f]]]]
    /\ UNCHANGED <<lockTable, acquired_locks, obs, pool>>

\* "pick a page range for the tail", write_tail_record, "record the tail in
\* page directory"
UpdaterTail(u) ==
    /\ txns[u].pc = "tail"
    /\ \E g \in {IF table.current_tail_page_range = None
                    \/ Len(table.page_ranges[table.current_tail_page_range + 1].tail)
                         >= RECORDS_PER_PAGE * PAGES_PER_RANGE
                 THEN Only({[tb |-> [c.tb EXCEPT !.current_tail_page_range = c.range_idx],
                             range_idx |-> c.range_idx]
                            : c \in {get_or_create_page_range(table)}})
                 ELSE [tb |-> table, range_idx |-> table.current_tail_page_range]} :
         table' = [g.tb EXCEPT
                     !.page_ranges[g.range_idx + 1].tail =
                         Append(@, TailData(txns[u].rd, MergeColumns)),
                     !.page_directory =
                         MapPut(@, txns[u].rd.tail_rid,
                                Loc(g.range_idx, TRUE,
                                    Len(g.tb.page_ranges[g.range_idx + 1].tail)))]
    /\ txns' = [txns EXCEPT ![u].pc = "lock"]
    /\ UNCHANGED <<lockTable, acquired_locks, obs, pool>>

\* with base_pr.lock: entered
UpdaterLock(u) ==
    /\ txns[u].pc = "lock"
    /\ RangeLockHolders(table.page_directory[txns[u].rid].range_idx) = {}
    /\ txns' = [txns EXCEPT ![u].pc = "base"]
    /\ UNCHANGED <<table, lockTable, acquired_locks, obs, pool>>

\* "update indirection and schema-encoding on base record", and the lock
\* is released
UpdaterBase(u) ==
    /\ txns[u].pc = "base"
    /\ LET loc == table.page_directory[txns[u].rid]
       IN  table' = update_base_column(
                        update_base_column(table, loc.range_idx, loc.offset,
                                           INDIRECTION_COLUMN, txns[u].rd.tail_rid),
                        loc.range_idx, loc.offset, SCHEMA_ENCODING_COLUMN,
                        SchemaOr(txns[u].rd.current_schema, MergeColumns, 0))
    /\ txns' = [txns EXCEPT ![u].pc = "dirty"]
    /\ UNCHANGED <<lockTable, acquired_locks, obs, pool>>

\* the index update and self._rids_to_merge.add(rid)
UpdaterDirty(u) ==
    /\ txns[u].pc = "dirty"
    /\ \E x \in {IndexUpdateAll(table, txns[u].rd.latest_values, MergeColumns,
                                txns[u].rid, 0)} :
           table' = [x.tb EXCEPT !.rids_to_merge = @ \cup {txns[u].rid}]
    /\ txns' = [txns EXCEPT ![u].pc = "count"]
    /\ UNCHANGED <<lockTable, acquired_locks, obs, pool>>

\* self.updates_since_merge += 1, and update_record returns
UpdaterCount(u) ==
    /\ txns[u].pc = "count"
    /\ table' = [table EXCEPT !.updates_since_merge = @ + 1]
    /\ txns' = [txns EXCEPT ![u].pc = "call", ![u].rid = None, ![u].rd = NoLocals]
    /\ UNCHANGED <<lockTable, acquired_locks, obs, pool>>

MergeThreadStep ==
    \/ MergeWake
    \/ MergeCopy
    \/ MergeTryLock
    \/ MergeCheck
    \/ MergeLatest
    \/ MergeTps
    \/ MergeReset

UpdaterStep(u) ==
    \/ UpdaterCall(u)
    \/ UpdaterTail(u)
    \/ UpdaterLock(u)
    \/ UpdaterBase(u)
    \/ UpdaterDirty(u)
    \/ UpdaterCount(u)

NextMerge == MergeThreadStep \/ \E u \in Updaters : UpdaterStep(u)

SpecMerge == InitMerge /\ [][NextMerge]_vars

\* C36, as stated: merge loses no dirty RID.  When a merge pass ends, every
\* RID it took out of the dirty set has been handled under its page range's
\* lock (merged, or skipped as deleted, chain-empty or covered by the TPS),
\* or was handed back because the range's lock was busy and is in the dirty
\* set; and from the copy to the end of the pass no step takes a RID out of
\* the dirty set, so the RIDs that updates add during the pass stay in it.
C36_MergeLosesNoDirtyRid ==
    [][/\ Merger.pc \notin {"idle", "copy"}
            => table.rids_to_merge \subseteq table'.rids_to_merge
       /\ Merger.pc # "reset" /\ Merger'.pc = "reset"
            => \A rid \in Merger'.rids_to_merge :
                  \/ rid \in Merger'.processed
                  \/ rid \in Merger'.returned /\ rid \in table'.rids_to_merge]_vars

\* C36, amended: the same, for every RID taken out of the dirty set that the
\* page directory maps to a base record; a RID whose insert was rolled back
\* is left out when the RIDs are grouped, before any lock is taken.
C36_MergeLosesNoMappedDirtyRid ==
    [][/\ Merger.pc \notin {"idle", "copy"}
            => table.rids_to_merge \subseteq table'.rids_to_merge
       /\ Merger.pc # "reset" /\ Merger'.pc = "reset"
            => \A rid \in Merger'.rids_to_merge \cap BaseRids(table') :
                  \/ rid \in Merger'.processed
                  \/ rid \in Merger'.returned /\ rid \in table'.rids_to_merge]_vars

\* a pass has ended whose lock attempt failed: its RIDs are back in the
\* dirty set, next to a RID an update added during the pass
C36_Witness ==
    /\ Merger.pc = "reset"
    /\ Merger.returned # {}
    /\ Merger.returned \subseteq table.rids_to_merge
    /\ \E rid \in table.rids_to_merge : rid \notin Merger.rids_to_merge

\* the threads run: the merge thread takes its next step when it has one,
\* and a call of update_record that has started goes on to its end; no
\* caller has to start a call
SpecMergeFair ==
    /\ SpecMerge
    /\ WF_vars(MergeThreadStep)
    /\ \A u \in Updaters :
          WF_vars(UpdaterTail(u) \/ UpdaterLock(u) \/ UpdaterBase(u)
                  \/ UpdaterDirty(u) \/ UpdaterCount(u))

\* record rid has received at least MergeThreshold updates and no further
\* operation is issued: every call has returned and none is left to make
UpdatesIssued(rid) ==
    /\ rid \in BaseRids(table)
    /\ Len(Chain(table, rid)) >= MergeThreshold
    /\ table.next_rid > MergeMaxRid
    /\ \A u \in Updaters : txns[u].pc = "call"

\* the TPS of the base page of record rid is greater than 0
TpsAboveZero(rid) ==
    /\ rid \in BaseRids(table)
    /\ table.page_ranges[table.page_directory[rid].range_idx + 1].tps > 0

\* C37: merge progress.  Once a live record has received at least
\* MERGE_THRESHOLD_UPDATES updates and no further operation is issued, the
\* TPS of the record's base page eventually becomes greater than 0, however
\* the updates interleaved with the merge thread's lock attempts.
C37_MergeProgress ==
    \A rid \in 1 .. 2 : [](UpdatesIssued(rid) => <>TpsAboveZero(rid))

---------------------------------------------------------------------------
(* SpecMutex: the table's internal mutexes.  Two worker threads run the     *)
(* table's operations and thread MergeThread runs merge passes; of an       *)
(* operation only its lock steps are kept, in the order of the code.        *)
(* txns[t] is thread t: script, the lock steps it still has to take in the  *)
(* operation it runs, and held, the mutexes it holds, innermost last.  A    *)
(* step is <<kind, mutex>>: "acquire" and "release" are the two ends of a   *)
(* `with` block or the calls of the same name; "with" is a `with` block     *)
(* that takes no mutex inside, entered and left in one step; "try" is       *)
(* acquire(blocking=False), with as third component the number of steps     *)
(* the thread skips when it does not get the mutex.  The PageRange methods  *)
(* called inside a block on the same page range's lock take that RLock      *)
(* again, which its holder always gets; these inner pairs are left out.     *)
(* A record is <<b, tl>>: the page range of its base record and the page    *)
(* range of its newest tail record.                                         *)

index_lock == <<"index_lock", 0>>
page_directory_lock == <<"page_directory_lock", 0>>
page_ranges_lock == <<"page_ranges_lock", 0>>
rid_lock == <<"rid_lock", 0>>
updates_counter_lock == <<"updates_counter_lock", 0>>
rids_to_merge_lock == <<"_rids_to_merge_lock", 0>>
transaction_modifications_lock == <<"_transaction_modifications_lock", 0>>
RangeLock(range_idx) == <<"lock", range_idx>>

MutexRanges == {0, 1}
MutexRecords == {<<0, 1>>, <<1, 0>>}
Workers == {1, 2}

\* threading.RLock(): the holder may take it again
IsRLock(mutex) ==
    mutex \in {index_lock, page_directory_lock, page_ranges_lock}
              \cup {RangeLock(r) : r \in MutexRanges}

WithLock(mutex) == <<<<"with", mutex>>>>
Acquire(mutex) == <<<<"acquire", mutex>>>>
Release(mutex) == <<<<"release", mutex>>>>

\* with mutex: body
Holding(mutex, body) == Acquire(mutex) \o body \o Release(mutex)

\* Table.read_record of a record in page range range_idx
ReadRecordScript(range_idx) ==
    WithLock(page_directory_lock) \o WithLock(page_ranges_lock)
    \o Holding(RangeLock(range_idx), <<>>)

\* Table.get_latest_version: the base record, then its newest tail record
LatestVersionScript(rec) == ReadRecordScript(rec[1]) \o ReadRecordScript(rec[2])

\* Table._get_or_create_page_range, with has_capacity of the current range
GetOrCreateScript(range_idx) ==
    Holding(page_ranges_lock, Holding(RangeLock(range_idx), <<>>))

\* Table.insert into page range range_idx
InsertScript(range_idx) ==
    Holding(index_lock,
            WithLock(rid_lock)
            \o GetOrCreateScript(range_idx)
            \o Holding(RangeLock(range_idx), <<>>)               \* write_base_record
            \o WithLock(page_directory_lock)
            \o WithLock(transaction_modifications_lock))          \* record_modification

\* an update_record that updates the index inside `with base_pr.lock`
UpdateScriptIndexInside(rec) ==
    ReadRecordScript(rec[1])
    \o WithLock(transaction_modifications_lock)
    \o LatestVersionScript(rec)
    \o WithLock(rid_lock)
    \o Holding(page_ranges_lock, GetOrCreateScript(rec[2]))
    \o Holding(RangeLock(rec[2]), <<>>)
    \o WithLock(page_directory_lock)
    \o WithLock(page_ranges_lock)
    \o Holding(RangeLock(rec[1]), WithLock(index_lock))
    \o WithLock(rids_to_merge_lock)
    \o WithLock(updates_counter_lock)

\* Table.update_record of rec; the new tail goes to the tail's page range
UpdateScript(rec) ==
    ReadRecordScript(rec[1])
    \o WithLock(transaction_modifications_lock)
    \o LatestVersionScript(rec)
    \o WithLock(rid_lock)
    \o Holding(page_ranges_lock, GetOrCreateScript(rec[2]))
    \o Holding(RangeLock(rec[2]), <<>>)                           \* write_tail_record
    \o WithLock(page_directory_lock)
    \o WithLock(page_ranges_lock)
    \o Holding(RangeLock(rec[1]), <<>>)                           \* with base_pr.lock
    \o WithLock(index_lock)
    \o WithLock(rids_to_merge_lock)
    \o WithLock(updates_counter_lock)

\* Table.delete_record of rec
DeleteScript(rec) ==
    WithLock(page_directory_lock)
    \o ReadRecordScript(rec[1])
    \o WithLock(transaction_modifications_lock)
    \o LatestVersionScript(rec)
    \o WithLock(page_ranges_lock)
    \o Holding(RangeLock(rec[1]), <<>>)
    \o WithLock(index_lock)

\* Table.rollback_modifications of a journal with one entry of type type
RollbackScript(type, rec) ==
    WithLock(transaction_modifications_lock)
    \o WithLock(page_directory_lock)
    \o WithLock(page_ranges_lock)
    \o Holding(RangeLock(rec[1]), <<>>)
    \o (IF type = "delete" THEN <<>> ELSE LatestVersionScript(rec))
    \o (IF type = "insert" THEN WithLock(page_directory_lock) ELSE <<>>)

\* Query.select without an index entry: the full scan under
\* page_directory_lock, then the retrieval
SelectScanScript(rec) ==
    Holding(page_directory_lock, LatestVersionScript(rec))
    \o LatestVersionScript(rec)

\* a merge that keeps the page range's lock over get_latest_version
MergeScriptKeepsLock(rec, skip) ==
    WithLock(rids_to_merge_lock)
    \o WithLock(page_ranges_lock)
    \o WithLock(page_directory_lock)
    \o WithLock(page_ranges_lock)
    \o <<<<"try", RangeLock(rec[1]), IF skip THEN 1 ELSE 9>>>>
    \o (IF skip THEN <<>> ELSE LatestVersionScript(rec))
    \o Release(RangeLock(rec[1]))
    \o WithLock(updates_counter_lock)

\* Table.merge with one dirty record rec.  skip: the record is skipped by
\* the checks under the lock (deleted, chain-empty or covered by the TPS)
MergeScript(rec, skip) ==
    WithLock(rids_to_merge_lock)
    \o WithLock(page_ranges_lock)
    \o WithLock(page_directory_lock)
    \o WithLock(page_ranges_lock)
    \o <<<<"try", RangeLock(rec[1]), IF skip THEN 1 ELSE 11>>>>
    \o (IF skip THEN <<>>
        ELSE Release(RangeLock(rec[1]))
             \o LatestVersionScript(rec)
             \o Acquire(RangeLock(rec[1])))
    \o Release(RangeLock(rec[1]))                                 \* finally
    \o WithLock(updates_counter_lock)

\* what a worker thread may run
WorkerScripts ==
    {InsertScript(1)}
    \cup {UpdateScript(rec) : rec \in MutexRecords}
    \cup {DeleteScript(rec) : rec \in MutexRecords}
    \cup {RollbackScript(type, rec) : type \in {"insert", "update", "delete"},
                                      rec \in MutexRecords}
    \cup {SelectScanScript(rec) : rec \in MutexRecords}

MergeScripts == {MergeScript(rec, skip) : rec \in MutexRecords, skip \in BOOLEAN}

MutexThreads == Workers \cup {MergeThread}

InitMutex ==
    /\ table = EmptyTable
    /\ lockTable = <<>>
    /\ acquired_locks = <<>>
    /\ txns = [t \in MutexThreads |-> [script |-> <<>>, held |-> <<>>]]
    /\ obs = [op |-> "init", ok |-> TRUE]
    /\ pool = Bufferpool

\* the mutexes thread t holds
MutexesOf(t) == {txns[t].held[i] : i \in DOMAIN txns[t].held}

\* thread t gets mutex now: nobody holds it, or t does and it is an RLock
Available(t, mutex) ==
    /\ \A o \in MutexThreads \ {t} : mutex \notin MutexesOf(o)
    /\ mutex \in MutexesOf(t) => IsRLock(mutex)

\* seq without its last element equal to mutex
RECURSIVE DropLast(_, _)
DropLast(seq, mutex) ==
    IF seq = <<>> THEN <<>>
    ELSE IF seq[Len(seq)] = mutex THEN SubSeq(seq, 1, Len(seq) - 1)
    ELSE Append(DropLast(SubSeq(seq, 1, Len(seq) - 1), mutex), seq[Len(seq)])

\* a thread between two operations starts one
StartOperation(t) ==
    /\ txns[t].script = <<>>
    /\ \E script \in IF t = MergeThread THEN MergeScripts ELSE WorkerScripts :
          txns' = [txns EXCEPT ![t].script = script]
    /\ UNCHANGED <<table, lockTable, acquired_locks, obs, pool>>

\* the next lock step of thread t
LockStep(t) ==
    /\ txns[t].script # <<>>
    /\ LET step == Head(txns[t].script)
           rest == Tail(txns[t].script)
       IN  CASE step[1] = "with" ->
                  /\ Available(t, step[2])
                  /\ txns' = [txns EXCEPT ![t].script = rest]
             [] step[1] = "acquire" ->
                  /\ Available(t, step[2])
                  /\ txns' = [txns EXCEPT ![t].script = rest,
                                          ![t].held = Append(@, step[2])]
             [] step[1] = "release" ->
                  txns' = [txns EXCEPT ![t].script = rest,
                                       ![t].held = DropLast(@, step[2])]
             [] step[1] = "try" ->
                  IF Available(t, step[2])
                  THEN txns' = [txns EXCEPT ![t].script = rest,
                                            ![t].held = Append(@, step[2])]
                  ELSE txns' = [txns EXCEPT ![t].script =
                                    WithLock(rids_to_merge_lock)
                                    \o SubSeq(rest, step[3] + 1, Len(rest))]
    /\ UNCHANGED <<table, lockTable, acquired_locks, obs, pool>>

NextMutex == \E t \in MutexThreads : StartOperation(t) \/ LockStep(t)

SpecMutex == InitMutex /\ [][NextMutex]_vars

\* thread t waits for a mutex another thread holds
Blocked(t) ==
    /\ txns[t].script # <<>>
    /\ Head(txns[t].script)[1] \in {"with", "acquire"}
    /\ ~Available(t, Head(txns[t].script)[2])

\* C38: no thread ever holds the locks of two different page ranges at the
\* same time.
C38_OneRangeLockAtATime ==
    \A t \in MutexThreads : \A r1, r2 \in MutexRanges :
        RangeLock(r1) \in MutexesOf(t) /\ RangeLock(r2) \in MutexesOf(t) => r1 = r2

\* the merge thread has released its range's lock and reads the newest
\* tail record in the other page range, whose lock it holds
C38_Witness ==
    /\ MutexesOf(MergeThread) = {RangeLock(1)}
    /\ Len(txns[MergeThread].script) = 4
    /\ \E t \in Workers : RangeLock(0) \in MutexesOf(t)

\* C39: the table's internal mutexes never deadlock: there is no set of
\* threads each of which waits for a mutex that a thread of the set holds.
C39_NoMutexDeadlock ==
    \A S \in SUBSET MutexThreads :
        S # {} => \E t \in S :
                     \/ ~Blocked(t)
                     \/ \A o \in S : Head(txns[t].script)[2] \notin MutexesOf(o)

\* an insert holds index_lock and waits for the page range's lock, which
\* the merge thread holds, while the other worker waits for index_lock
C39_Witness ==
    /\ \E t \in Workers :
          /\ Blocked(t)
          /\ index_lock \in MutexesOf(t)
          /\ Head(txns[t].script)[2] \in MutexesOf(MergeThread)
    /\ \E t \in Workers : Blocked(t) /\ Head(txns[t].script)[2] = index_lock

---------------------------------------------------------------------------
(* SpecWriteBack: one caller of "Project 2/lstore"/bufferpool.py, call by   *)
(* call, with the pages' bytes and the files of disk.py.  pool is           *)
(* [frames, lru, disk]: frames maps a page id to [page, pin, dirty], page   *)
(* being the Page's data; disk maps the page ids that have a file to the    *)
(* file's bytes.  txns is the caller: written[p], the bytes it last wrote   *)
(* to page p (the zeros of a page never written), and unsaved, the pages    *)
(* it wrote to under the pin it holds.  obs is the last call and, for       *)
(* fix_page, the data of the Page returned.                                 *)

PageSize == 2          \* PAGE_SIZE, the length of Page.data
ByteVals == {0, 1}

Zeros(n) == [i \in 1 .. n |-> 0]

\* the slots the caller writes to: the last byte of the page
WriteSlots == {PageSize}

\* DiskManager.read_page
read_page(disk, page_id) ==
    IF page_id \notin DOMAIN disk THEN Zeros(PageSize)
    ELSE LET data == disk[page_id]
             kept == SubSeq(data, 1, IF Len(data) < PageSize THEN Len(data) ELSE PageSize)
         IN  kept \o Zeros(PageSize - Len(kept))

\* DiskManager.write_page
write_page(disk, page_id, buf) ==
    MapPut(disk, page_id, SubSeq(buf, 1, IF Len(buf) < PageSize THEN Len(buf) ELSE PageSize))

\* the first page id of lru whose frame has pin 0, or None
RECURSIVE Victim(_, _)
Victim(frames, lru) ==
    IF lru = <<>> THEN None
    ELSE IF frames[Head(lru)].pin = 0 THEN Head(lru)
    ELSE Victim(frames, Tail(lru))

\* an evict that drops the victim's frame without writing it
EvictNoWriteBack(bp) ==
    \* the frame is dropped whatever its dirty flag says
    IF Victim(bp.frames, bp.lru) = None THEN bp
    ELSE [bp EXCEPT !.frames = MapRemove(@, Victim(bp.frames, bp.lru)),
                    !.lru = SelectSeq(@, LAMBDA p : p # Victim(bp.frames, bp.lru))]

\* Bufferpool.evict
Evict(bp) ==
    IF Victim(bp.frames, bp.lru) = None THEN bp
    ELSE LET victim_id == Victim(bp.frames, bp.lru)
             frame == bp.frames[victim_id]
         IN  [bp EXCEPT !.disk = IF frame.dirty THEN write_page(@, victim_id, frame.page)
                                 ELSE @,
                        !.frames = MapRemove(@, victim_id),
                        !.lru = SelectSeq(@, LAMBDA p : p # victim_id)]

\* Bufferpool.fix_page: [bp, page]
FixPage(bp, page_id) ==
    IF page_id \in DOMAIN bp.frames
    THEN [bp |-> [bp EXCEPT !.frames[page_id].pin = @ + 1,
                            !.lru = Append(SelectSeq(@, LAMBDA p : p # page_id), page_id)],
          page |-> bp.frames[page_id].page]
    ELSE \* the load after evict()
         Only({[bp |-> [e EXCEPT !.frames =
                            MapPut(@, page_id, [page |-> read_page(e.disk, page_id),
                                                pin |-> 1, dirty |-> FALSE]),
                                 !.lru = Append(@, page_id)],
                page |-> read_page(e.disk, page_id)]
               : e \in {IF Cardinality(DOMAIN bp.frames) >= PoolCapacity
                        THEN Evict(bp) ELSE bp}})

\* Bufferpool.unfix_page
UnfixPage(bp, page_id, dirty) ==
    IF page_id \notin DOMAIN bp.frames THEN bp
    ELSE [bp EXCEPT !.frames[page_id].pin = IF @ > 0 THEN @ - 1 ELSE @,
                    !.frames[page_id].dirty = IF dirty THEN TRUE ELSE @]

\* Bufferpool.flush
Flush(bp, page_id) ==
    IF page_id \notin DOMAIN bp.frames THEN bp
    ELSE IF ~bp.frames[page_id].dirty THEN bp
    ELSE [bp EXCEPT !.disk = write_page(@, page_id, bp.frames[page_id].page),
                    !.frames[page_id].dirty = FALSE]

InitWriteBack ==
    /\ table = EmptyTable
    /\ lockTable = <<>>
    /\ acquired_locks = <<>>
    /\ txns = [written |-> [p \in PoolPages |-> Zeros(PageSize)], unsaved |-> {}]
    /\ obs = [op |-> "init"]
    /\ pool = [frames |-> <<>>, lru |-> <<>>, disk |-> <<>>]

\* the pages the caller holds a pin on
Pinned == {p \in DOMAIN pool.frames : pool.frames[p].pin > 0}

\* the caller fixes a page it holds no pin on
CallFixPage(page_id) ==
    /\ page_id \notin Pinned
    /\ \E f \in {FixPage(pool, page_id)} :
          /\ pool' = f.bp
          /\ obs' = [op |-> "fix_page", page_id |-> page_id, data |-> f.page,
                     miss |-> page_id \notin DOMAIN pool.frames]
    /\ UNCHANGED <<table, lockTable, acquired_locks, txns>>

\* the caller writes to the Page of a page it has fixed
CallWrite(page_id, slot, value) ==
    /\ page_id \in Pinned
    /\ pool.frames[page_id].page[slot] # value
    /\ pool' = [pool EXCEPT !.frames[page_id].page[slot] = value]
    /\ txns' = [txns EXCEPT !.written[page_id] = pool'.frames[page_id].page,
                            !.unsaved = @ \cup {page_id}]
    /\ obs' = [op |-> "write", page_id |-> page_id]
    /\ UNCHANGED <<table, lockTable, acquired_locks>>

\* unfix_page; with dirty=True when the caller wrote under the pin
CallUnfixPage(page_id, dirty) ==
    /\ page_id \in Pinned
    /\ page_id \in txns.unsaved => dirty
    /\ pool' = UnfixPage(pool, page_id, dirty)
    /\ txns' = [txns EXCEPT !.unsaved = @ \ {page_id}]
    /\ obs' = [op |-> "unfix_page", page_id |-> page_id]
    /\ UNCHANGED <<table, lockTable, acquired_locks>>

CallFlush(page_id) ==
    /\ pool' = Flush(pool, page_id)
    /\ obs' = [op |-> "flush", page_id |-> page_id]
    /\ UNCHANGED <<table, lockTable, acquired_locks, txns>>

NextWriteBack ==
    \E page_id \in PoolPages :
        \/ CallFixPage(page_id)
        \/ \E slot \in WriteSlots, value \in ByteVals : CallWrite(page_id, slot, value)
        \/ \E dirty \in BOOLEAN : CallUnfixPage(page_id, dirty)
        \/ CallFlush(page_id)

SpecWriteBack == InitWriteBack /\ [][NextWriteBack]_vars

\* C40: write-back loses no write: fix_page(p) returns a page whose bytes
\* are the last bytes written to p.
C40_WriteBackLosesNoWrite ==
    obs.op = "fix_page" => obs.data = txns.written[obs.page_id]

\* fix_page missed and returned bytes that were written earlier, reloaded
\* from the file an eviction wrote; the victim of this call was written too
C40_Witness ==
    /\ obs.op = "fix_page"
    /\ obs.miss
    /\ obs.data # Zeros(PageSize)
    /\ obs.page_id \in DOMAIN pool.disk
    /\ \E p \in DOMAIN pool.disk : p # obs.page_id /\ pool.disk[p] # Zeros(PageSize)

====
